---- MODULE Spec2Model ----
(***************************************************************************)
(* A model of the command executor (command_processor.rs), the blocking-   *)
(* pop registry (blocking_list.rs), the pub/sub hub (pubsub.rs) and the    *)
(* string keyspace (storage.rs) of the server.  Every connection is a task *)
(* that runs CommandProcessor::execute; a task can be pre-empted at every  *)
(* .await on a lock, so each locked section is one atomic step and the     *)
(* steps of different connections interleave.                              *)
(***************************************************************************)
EXTENDS Integers, Sequences, FiniteSets, TLC

\* ------------------------------------------------------------------ bounds
NClients == 3
MaxCmds == 3
MaxVal == 2
MaxReg == 3
MaxTime == 1
MaxTimeout == 1
MaxQueue == 2
MaxSolo == 4
GeoBits == 1
IntBits == 8
MaxPx == 1
MaxPipeline == 2
ReadCap == 40
MaxIndex == 4
MaxSecs == 1
MaxMillis == 2
NPublishers == 2
NSubscribers == 2

Clients == 1..NClients
Publishers == 1..NPublishers
Subscribers == 1..NSubscribers
Keys == {"k"}
Channels == {"ch", "ch2"}
None == -1

\* ------------------------------------------------------------ state
VARIABLES
    lists,            \* Storage: list key -> sequence of elements (absent = empty)
    data,             \* Storage.data: the map from the keys it has to StoredValues
    sorted_sets,      \* Storage.sorted_sets: the map from the keys it has to SortedSets
    pipeline,         \* the commands a client has written to its socket
    socket,           \* the bytes of them that the server has not read yet
    replies,          \* the responses handle_connection has written
    task,             \* handle_connection: "new", "open", or "dead" after a panic
    inbuf,            \* the Bytes buffer handed to parse_value
    decoded,          \* the outcomes of the calls of parse_value
    wall,             \* SystemTime::now(), in milliseconds since UNIX_EPOCH
    storage,          \* SharedStorage (server.rs): key -> StorageValue
    rdb_file,         \* the entries of the snapshot file that was loaded
    fetched,          \* the last answer of the Server to a GET
    hub_channel,      \* PubSubManager.channels: the subscribers of one channel
    publishing,       \* the calls of PubSubManager::publish, one per publishing task
    inbox,            \* the receiving ends of the senders of the subscribers
    lastSet,          \* history: per key, the last write of a string and its time
    zadded,           \* history: <<key, member, score>> of every ZADD with a finite score
    waiting_clients,  \* BlockingListManager.waiting_clients: key -> queue of waiters
    mailbox,          \* receiving end of each connection's blocking_tx channel
    channels,         \* PubSubManager.channels: channel -> set of client ids
    senders,          \* PubSubManager.senders: the client ids with a registered mailbox
    psbox,            \* receiving end of each connection's pub/sub channel
    now,              \* the monotonic clock (Instant::now())
    closed,           \* connection closed
    tx_state,         \* CommandProcessor.tx_state: [active, queue]
    pub_sub_state,    \* CommandProcessor.pub_sub_state.active
    pub_sub_client,   \* PubSubClient.channels
    pc,               \* position of the connection task
    todo,             \* commands execute still has to pass to execute_primitive
    results,          \* results collected by execute so far
    inExec,           \* the running execute call is an EXEC
    tmp,              \* locals of the primitive in progress
    reply,            \* last CommandResult returned by execute (or sent after a block)
    lastCmd,          \* the name of the command of the last execute call
    nextVal,          \* next fresh element to push (elements are told apart)
    issued,           \* number of commands each connection has sent so far
    queued,           \* number of commands put in a transaction queue so far
    onlyIncr,         \* history: every command sent so far was an INCR
    pubBefore,        \* history: per message, the messages whose PUBLISH had
                      \* completed when its PUBLISH was sent
    regs,             \* history: every registration made in the registry
    sent,             \* history: per registration, the messages sent to its mailbox
    observed,         \* history: <<client, element>> an LRANGE reply showed
    executed,         \* history: <<command, result>> of the primitives of the last EXEC
    batch,            \* history: the queue EXEC took
    dropped           \* history: the elements of the pushes a DISCARD dropped

shared == <<lists, data, waiting_clients, mailbox, channels, senders, psbox>>
conn == <<tx_state, pub_sub_state, pub_sub_client, pc, todo, results, inExec, tmp,
          reply, lastCmd>>
hist == <<regs, sent, observed, executed, batch, dropped>>
counters == <<nextVal, issued, queued, pubBefore, onlyIncr>>
zsets == <<sorted_sets, zadded, lastSet>>
wire == <<pipeline, socket, replies, task, inbuf, decoded>>
boot == <<wall, storage, rdb_file, fetched>>
hub == <<hub_channel, publishing, inbox>>
vars == <<shared, zsets, wire, boot, hub, boot, hub, now, closed, conn, counters, hist>>

\* ------------------------------------------------------------ values
\* RedisCommand (redis_command.rs): one record shape for every variant
Cmd(op, key, elems, arg, end) ==
    [op |-> op, key |-> key, elems |-> elems, arg |-> arg, end |-> end]

\* CommandResult (redis_command.rs): one record shape for every variant
Res(t, n, s, items) == [t |-> t, n |-> n, s |-> s, items |-> items]
Ok == Res("Ok", 0, "", <<>>)
Pong == Res("Pong", 0, "", <<>>)
Queued == Res("Queued", 0, "", <<>>)
Blocked == Res("Blocked", 0, "", <<>>)
NullArray == Res("NullArray", 0, "", <<>>)
Nil == Res("Nil", 0, "", <<>>)
NoReply == Res("NoReply", 0, "", <<>>)
Value(n) == Res("Value", n, "", <<>>)
Str(s) == Res("Str", 0, s, <<>>)
Integer(n) == Res("Integer", n, "", <<>>)
RedisError(s) == Res("RedisError", 0, s, <<>>)
Array(items) == Res("Array", 0, "", items)

NoCmd == Cmd("NONE", "", <<>>, 0, 0)
NoTmp == [len |-> 0, was_empty |-> FALSE, popped |-> None, subs |-> {}]

RECURSIVE SeqMap(_, _)
SeqMap(F(_), s) == IF s = <<>> THEN <<>> ELSE <<F(Head(s))>> \o SeqMap(F, Tail(s))

Range(s) == {s[i] : i \in 1..Len(s)}

\* ------------------------------------------------------------ Init
Init ==
    /\ lists = [k \in Keys |-> <<>>]
    /\ data = <<>>
    /\ sorted_sets = <<>>
    /\ zadded = {}
    /\ pipeline = <<>>
    /\ socket = <<>>
    /\ replies = <<>>
    /\ task = "new"
    /\ inbuf = <<>>
    /\ decoded = <<>>
    /\ wall = 1
    /\ storage = <<>>
    /\ rdb_file = <<>>
    /\ fetched = [key |-> "", t |-> "None", text |-> <<>>, at |-> 0]
    /\ hub_channel = {}
    /\ publishing = [p \in Publishers |-> [pc |-> "new", subscribers |-> {}, count |-> 0]]
    /\ inbox = [s \in Subscribers |-> <<>>]
    /\ lastSet = [k \in Keys |-> [set |-> FALSE, value |-> <<>>, at |-> 0, px |-> None]]
    /\ waiting_clients = [k \in Keys |-> <<>>]
    /\ mailbox = [c \in Clients |-> <<>>]
    /\ channels = [ch \in Channels |-> {}]
    /\ senders = Clients
    /\ psbox = [c \in Clients |-> <<>>]
    /\ now = 0
    /\ closed = [c \in Clients |-> FALSE]
    /\ tx_state = [c \in Clients |-> [active |-> FALSE, queue |-> <<>>]]
    /\ pub_sub_state = [c \in Clients |-> FALSE]
    /\ pub_sub_client = [c \in Clients |-> {}]
    /\ pc = [c \in Clients |-> "idle"]
    /\ todo = [c \in Clients |-> <<>>]
    /\ results = [c \in Clients |-> <<>>]
    /\ inExec = [c \in Clients |-> FALSE]
    /\ tmp = [c \in Clients |-> NoTmp]
    /\ reply = [c \in Clients |-> NoReply]
    /\ lastCmd = [c \in Clients |-> "NONE"]
    /\ nextVal = 1
    /\ issued = [c \in Clients |-> 0]
    /\ queued = 0
    /\ pubBefore = [m \in 1..MaxVal |-> [sent |-> FALSE, done |-> {}]]
    /\ onlyIncr = TRUE
    /\ regs = <<>>
    /\ sent = [r \in 1..MaxReg |-> <<>>]
    /\ observed = {}
    /\ executed = [c \in Clients |-> <<>>]
    /\ batch = [c \in Clients |-> <<>>]
    /\ dropped = {}

\* ------------------------------------------------------------ Storage: lists
\* Storage::rpush: append, report the new length and whether the list was
\* empty (or absent) before the push
rpush(list, elements) ==
    [list |-> list \o elements, len |-> Len(list) + Len(elements), was_empty |-> list = <<>>]

RECURSIVE Reverse(_)
Reverse(s) == IF s = <<>> THEN <<>> ELSE Reverse(Tail(s)) \o <<Head(s)>>

\* Storage::lpush: prepend the elements one by one, report the new length
lpush(list, elements) ==
    [list |-> Reverse(elements) \o list, len |-> Len(list) + Len(elements)]

Min(a, b) == IF a < b THEN a ELSE b
Max(a, b) == IF a > b THEN a ELSE b

\* Storage::lpop: remove up to count elements from the front; popped = <<>>
\* stands for the result None (absent or empty list)
lpop(list, count) ==
    LET n == Min(IF count = None THEN 1 ELSE count, Len(list))
    IN  [list |-> SubSeq(list, n + 1, Len(list)), popped |-> SubSeq(list, 1, n)]

\* Storage::llen
llen(list) == Len(list)

\* Storage::lrange: inclusive range, negative indices count from the end,
\* end clamped to len - 1
lrange(list, start, end) ==
    LET len == Len(list)
        s == Max(IF start < 0 THEN len + start ELSE start, 0)
        e == Min(IF end < 0 THEN len + end ELSE end, len - 1)
    IN  IF s >= len \/ s > e THEN <<>> ELSE SubSeq(list, s + 1, e + 1)

\* ------------------------------------------------------------ Storage: sorted sets
\* f64 scores: finite values, the two zeros, the infinities and NaN
Fin(val) == [kind |-> "fin", val |-> val, neg |-> val < 0]
NegZero == [kind |-> "fin", val |-> 0, neg |-> TRUE]
Inf(neg) == [kind |-> "inf", val |-> 0, neg |-> neg]
NaN == [kind |-> "nan", val |-> 0, neg |-> FALSE]

\* f64::is_finite
is_finite(x) == x.kind = "fin"

\* a < b for two scores that are not NaN
float_lt(a, b) ==
    LET Side(x) == IF x.kind = "fin" THEN 0 ELSE IF x.neg THEN -1 ELSE 1
    IN  Side(a) < Side(b) \/ (Side(a) = 0 /\ Side(b) = 0 /\ a.val < b.val)

\* f64::partial_cmp: no answer with a NaN, -0.0 equals +0.0
partial_cmp(a, b) ==
    IF a.kind = "nan" \/ b.kind = "nan" THEN "None"
    ELSE IF float_lt(a, b) THEN "Less"
    ELSE IF float_lt(b, a) THEN "Greater"
    ELSE "Equal"

\* f64 ==
float_eq(a, b) == partial_cmp(a, b) = "Equal"

\* String::cmp: bytes, lexicographically
RECURSIVE string_cmp(_, _)
string_cmp(a, b) ==
    IF a = <<>> /\ b = <<>> THEN "Equal"
    ELSE IF a = <<>> THEN "Less"
    ELSE IF b = <<>> THEN "Greater"
    ELSE IF Head(a) < Head(b) THEN "Less"
    ELSE IF Head(a) > Head(b) THEN "Greater"
    ELSE string_cmp(Tail(a), Tail(b))

ScoredMember(score, member) == [score |-> score, member |-> member]

\* mutant: the score is not looked at
cmp_by_member(a, b) == string_cmp(a.member, b.member)

\* impl Ord for ScoredMember
cmp(a, b) ==
    LET ord == partial_cmp(a.score, b.score)
    IN  IF ord \in {"Equal", "None"} THEN string_cmp(a.member, b.member) ELSE ord

\* BTreeSet::insert: the elements in the order of cmp; an element that
\* compares equal to one of the set is not inserted
btree_insert(ordered, x) ==
    IF \E i \in 1..Len(ordered) : cmp(ordered[i], x) = "Equal" THEN ordered
    ELSE LET below == Cardinality({i \in 1..Len(ordered) : cmp(ordered[i], x) = "Less"})
         IN  SubSeq(ordered, 1, below) \o <<x>> \o SubSeq(ordered, below + 1, Len(ordered))

\* BTreeSet::remove: the element that compares equal is removed
btree_remove(ordered, x) ==
    LET Other(e) == cmp(e, x) # "Equal" IN SelectSeq(ordered, Other)

\* HashMap::insert
map_insert(map, key, value) ==
    [k \in DOMAIN map \cup {key} |-> IF k = key THEN value ELSE map[k]]

\* SortedSet::new
SortedSet_new == [by_member |-> <<>>, ordered |-> <<>>]

\* mutant: the old entry of a member whose score changes stays in ordered
SortedSet_zadd_keeps_old(set, score, member) ==
    IF ~is_finite(score) THEN [set |-> set, added |-> 0]
    ELSE IF member \in DOMAIN set.by_member
    THEN IF float_eq(set.by_member[member], score) THEN [set |-> set, added |-> 0]
         ELSE [set |-> [by_member |-> map_insert(set.by_member, member, score),
                        ordered |-> btree_insert(set.ordered, ScoredMember(score, member))],
               added |-> 0]
    ELSE [set |-> [by_member |-> map_insert(set.by_member, member, score),
                   ordered |-> btree_insert(set.ordered, ScoredMember(score, member))],
          added |-> 1]

\* SortedSet::zadd
SortedSet_zadd(set, score, member) ==
    IF ~is_finite(score) THEN [set |-> set, added |-> 0]
    ELSE IF member \in DOMAIN set.by_member
    THEN IF float_eq(set.by_member[member], score) THEN [set |-> set, added |-> 0]
         ELSE LET old == ScoredMember(set.by_member[member], member)
              IN  [set |-> [by_member |-> map_insert(set.by_member, member, score),
                            ordered |-> btree_insert(btree_remove(set.ordered, old),
                                                     ScoredMember(score, member))],
                   added |-> 0]
    ELSE [set |-> [by_member |-> map_insert(set.by_member, member, score),
                   ordered |-> btree_insert(set.ordered, ScoredMember(score, member))],
          added |-> 1]

\* Storage::zadd: sets.entry(key).or_insert_with(SortedSet::new), then set.zadd
Storage_zadd(sets, key, score, member) ==
    LET set == IF key \in DOMAIN sets THEN sets[key] ELSE SortedSet_new
        r == SortedSet_zadd(set, score, member)
    IN  [sets |-> map_insert(sets, key, r.set), added |-> r.added]

NoMembers == [some |-> FALSE, members |-> <<>>]
SomeMembers(members) == [some |-> TRUE, members |-> members]

\* mutant: the end index is not taken in
SortedSet_zrange_exclusive(set, start, end) ==
    LET members_size == Cardinality(DOMAIN set.by_member)
        s == IF start < 0 THEN members_size + start ELSE start
        e == IF end < 0 THEN members_size + end ELSE end
    IN  IF s >= members_size \/ s > e THEN NoMembers
        ELSE LET first == Max(s, 0)
                 last == Min(e, members_size)
                 enumerate == [i \in 1..Len(set.ordered) |->
                                  [idx |-> i - 1, scored_member |-> set.ordered[i]]]
                 Wanted(p) == first <= p.idx /\ p.idx < last
                 kept == SelectSeq(enumerate, Wanted)
             IN  SomeMembers([i \in 1..Len(kept) |-> kept[i].scored_member.member])

\* SortedSet::zrange
SortedSet_zrange(set, start, end) ==
    LET members_size == Cardinality(DOMAIN set.by_member)
        s == IF start < 0 THEN members_size + start ELSE start
        e == IF end < 0 THEN members_size + end ELSE end
    IN  IF s >= members_size \/ s > e THEN NoMembers
        ELSE LET first == Max(s, 0)
                 last == Min(e, members_size)
                 enumerate == [i \in 1..Len(set.ordered) |->
                                  [idx |-> i - 1, scored_member |-> set.ordered[i]]]
                 Wanted(p) == first <= p.idx /\ p.idx <= last
                 kept == SelectSeq(enumerate, Wanted)
             IN  SomeMembers([i \in 1..Len(kept) |-> kept[i].scored_member.member])

\* SortedSet::zcard
SortedSet_zcard(set) == Cardinality(DOMAIN set.by_member)

\* Storage::zrange
Storage_zrange(sets, key, start, end) ==
    IF key \in DOMAIN sets THEN SortedSet_zrange(sets[key], start, end) ELSE NoMembers

\* Storage::zcard (None as -1)
Storage_zcard(sets, key) == IF key \in DOMAIN sets THEN SortedSet_zcard(sets[key]) ELSE None

\* ------------------------------------------------------------ Storage: strings
\* a String is the sequence of its bytes
Byte0 == 48
BytePlus == 43
ByteMinus == 45
ByteA == 97
ByteSpace == 32

\* i64, on IntBits bits
MaxInt == 2^(IntBits - 1) - 1
MinInt == 0 - 2^(IntBits - 1)

IsDigit(b) == Byte0 <= b /\ b <= Byte0 + 9

\* the number a sequence of digits reads as
RECURSIVE digits_value(_)
digits_value(digits) ==
    IF digits = <<>> THEN 0
    ELSE 10 * digits_value(SubSeq(digits, 1, Len(digits) - 1))
         + (digits[Len(digits)] - Byte0)

ParseErr == [ok |-> FALSE, value |-> 0]
ParseOk(value) == [ok |-> TRUE, value |-> value]

\* mutant: what is not a number reads as 0
parse_i64_lenient(str) ==
    LET signed == str # <<>> /\ Head(str) \in {BytePlus, ByteMinus}
        digits == IF signed THEN Tail(str) ELSE str
    IN  IF digits = <<>> \/ \E i \in 1..Len(digits) : ~IsDigit(digits[i]) THEN ParseOk(0)
        ELSE LET value == IF signed /\ Head(str) = ByteMinus THEN 0 - digits_value(digits)
                                                             ELSE digits_value(digits)
             IN  IF value < MinInt \/ value > MaxInt THEN ParseErr ELSE ParseOk(value)

\* str::parse::<i64>: an optional sign, one or more digits, a value in range
parse_i64(str) ==
    LET signed == str # <<>> /\ Head(str) \in {BytePlus, ByteMinus}
        digits == IF signed THEN Tail(str) ELSE str
    IN  IF digits = <<>> \/ \E i \in 1..Len(digits) : ~IsDigit(digits[i]) THEN ParseErr
        ELSE LET value == IF signed /\ Head(str) = ByteMinus THEN 0 - digits_value(digits)
                                                             ELSE digits_value(digits)
             IN  IF value < MinInt \/ value > MaxInt THEN ParseErr ELSE ParseOk(value)

\* i64::to_string
RECURSIVE to_string(_)
to_string(n) ==
    IF n < 0 THEN <<ByteMinus>> \o to_string(0 - n)
    ELSE IF n < 10 THEN <<Byte0 + n>>
    ELSE to_string(n \div 10) \o <<Byte0 + (n % 10)>>

\* value + 1 on i64: when the sum overflows, a build with overflow checks
\* panics and a build without them wraps
add_one(value) ==
    IF value < MaxInt THEN {[panic |-> FALSE, value |-> value + 1]}
    ELSE {[panic |-> TRUE, value |-> 0],
          [panic |-> FALSE, value |-> ((value + 1 - MinInt) % 2^IntBits) + MinInt]}

\* StoredValue::new
StoredValue_new(value) == [value |-> value, expires_at |-> None]

\* Storage::set
Storage_set(map, key, value) == map_insert(map, key, StoredValue_new(value))

NoString == [some |-> FALSE, value |-> <<>>]
SomeString(value) == [some |-> TRUE, value |-> value]

\* StoredValue::with_expiry: Instant::now() + Duration::from_millis(duration_ms)
StoredValue_with_expiry(value, duration_ms, instant) ==
    [value |-> value, expires_at |-> instant + duration_ms]

\* Storage::set_with_expiry
Storage_set_with_expiry(map, key, value, expiry_ms, instant) ==
    map_insert(map, key, StoredValue_with_expiry(value, expiry_ms, instant))

\* mutant: a value is expired from its deadline on
is_expired_at_deadline(stored_value, instant) ==
    stored_value.expires_at # None /\ instant >= stored_value.expires_at

\* StoredValue::is_expired
is_expired(stored_value, instant) ==
    stored_value.expires_at # None /\ instant > stored_value.expires_at

\* HashMap::remove
map_remove(map, key) == [k \in DOMAIN map \ {key} |-> map[k]]

\* Storage::get: under the write lock, an expired value is removed
Storage_get(map, key, instant) ==
    IF key \in DOMAIN map
    THEN IF is_expired(map[key], instant)
         THEN [some |-> FALSE, value |-> <<>>, map |-> map_remove(map, key)]
         ELSE [some |-> TRUE, value |-> map[key].value, map |-> map]
    ELSE [some |-> FALSE, value |-> <<>>, map |-> map]

\* the write of a string to key k that the history keeps
Written(k, value, px) ==
    [lastSet EXCEPT ![k] = [set |-> TRUE, value |-> value, at |-> now, px |-> px]]

\* geospatial.rs: is_valid_longitude, is_valid_latitude (whole degrees)
is_valid_longitude(longitude) == -180 <= longitude /\ longitude <= 180
is_valid_latitude(latitude) == -85 <= latitude /\ latitude <= 85

\* the bits of a and b, interleaved: a on the even places, b on the odd ones
RECURSIVE interleave(_, _)
interleave(a, b) ==
    IF a = 0 /\ b = 0 THEN 0
    ELSE (a % 2) + 2 * (b % 2) + 4 * interleave(a \div 2, b \div 2)

\* the cell of x in [lo, hi] cut into 2^GeoBits cells
geo_cell(x, lo, hi) == Min(((x - lo) * 2^GeoBits) \div (hi - lo), 2^GeoBits - 1)

\* geospatial.rs: encode, on GeoBits bits for each coordinate
geospatial_encode(latitude, longitude) ==
    interleave(geo_cell(longitude, -180, 180), geo_cell(latitude, -85, 85))

\* ------------------------------------------------------------ RESP
ByteCR == 13
ByteLF == 10
ByteStar == 42
ByteDollar == 36
ByteColon == 58
ByteComma == 44
CRLF == <<ByteCR, ByteLF>>

\* the names of the commands, in bytes
PING == <<80, 73, 78, 71>>
ECHO == <<69, 67, 72, 79>>

\* str::to_uppercase on ASCII
to_uppercase(str) ==
    [i \in 1..Len(str) |-> IF 97 <= str[i] /\ str[i] <= 122 THEN str[i] - 32 ELSE str[i]]

\* the place of the first CRLF of a string, 0 when it has none
FirstCRLF(str) ==
    LET at == {i \in 1..(Len(str) - 1) : str[i] = ByteCR /\ str[i + 1] = ByteLF}
    IN  IF at = {} THEN 0 ELSE CHOOSE i \in at : \A j \in at : i <= j

\* input.split("\r\n")
RECURSIVE split_crlf(_)
split_crlf(input) ==
    LET i == FirstCRLF(input)
    IN  IF i = 0 THEN <<input>>
        ELSE <<SubSeq(input, 1, i - 1)>> \o split_crlf(SubSeq(input, i + 2, Len(input)))

\* content.parse::<i32>(), on the model's IntBits
parse_i32(str) == parse_i64(str)

\* RespValue (resp.rs), one record shape for every variant
RespValue(t, text, n, items) == [t |-> t, text |-> text, n |-> n, items |-> items]
NoValue == RespValue("None", <<>>, 0, <<>>)

\* the outcomes of a parse: Ok((value, index)), Err, or a panic
ParsedOk(value, next) == [kind |-> "ok", value |-> value, next |-> next]
ParsedErr == [kind |-> "err", value |-> NoValue, next |-> 0]
ParsedPanic == [kind |-> "panic", value |-> NoValue, next |-> 0]

\* RespParser::parse_bulk_string; index counts from 0, lines[index + 1] is
\* read without a check that holds it inside lines
RespParser_parse_bulk_string(lines, index, length_str) ==
    LET length == parse_i32(length_str)
    IN  IF ~length.ok THEN ParsedErr
        ELSE IF length.value = -1 THEN ParsedOk(RespValue("Null", <<>>, 0, <<>>), index + 1)
        ELSE IF length.value < 0 THEN ParsedErr
        ELSE IF index + 1 > Len(lines) THEN ParsedErr
        ELSE IF index + 1 >= Len(lines) THEN ParsedPanic
        ELSE LET bulk == lines[index + 2]
             IN  IF Len(bulk) # length.value THEN ParsedErr
                 ELSE ParsedOk(RespValue("BulkString", bulk, 0, <<>>), index + 2)

RECURSIVE RespParser_parse_value(_, _)
RECURSIVE RespParser_parse_elements(_, _, _, _)

\* RespParser::parse_array, the loop over the elements
RespParser_parse_elements(lines, index, count, elements) ==
    IF count = 0 THEN ParsedOk(RespValue("Array", <<>>, 0, elements), index)
    ELSE LET r == RespParser_parse_value(lines, index)
         IN  IF r.kind # "ok" THEN r
             ELSE RespParser_parse_elements(lines, r.next, count - 1,
                                            Append(elements, r.value))

\* RespParser::parse_array
RespParser_parse_array(lines, index, count_str) ==
    LET count == parse_i32(count_str)
    IN  IF ~count.ok THEN ParsedErr
        ELSE IF count.value < 0 THEN ParsedErr
        ELSE RespParser_parse_elements(lines, index + 1, count.value, <<>>)

\* RespParser::parse_value
RespParser_parse_value(lines, index) ==
    IF index >= Len(lines) THEN ParsedErr
    ELSE LET line == lines[index + 1]
         IN  IF line = <<>> THEN ParsedErr
             ELSE LET type_char == Head(line)
                      content == Tail(line)
                  IN  IF type_char = BytePlus
                      THEN ParsedOk(RespValue("SimpleString", content, 0, <<>>), index + 1)
                      ELSE IF type_char = ByteMinus
                      THEN ParsedOk(RespValue("Error", content, 0, <<>>), index + 1)
                      ELSE IF type_char = ByteColon
                      THEN IF parse_i64(content).ok
                           THEN ParsedOk(RespValue("Integer", <<>>, parse_i64(content).value,
                                                   <<>>), index + 1)
                           ELSE ParsedErr
                      ELSE IF type_char = ByteDollar
                      THEN RespParser_parse_bulk_string(lines, index, content)
                      ELSE IF type_char = ByteStar
                      THEN RespParser_parse_array(lines, index, content)
                      ELSE ParsedErr

\* RespParser::parse: the first value of the input; what follows it is dropped
RespParser_parse(input) == RespParser_parse_value(split_crlf(input), 0)

\* the outcomes of Server::parse_command
CommandOk(command) == [kind |-> "ok", command |-> command]
CommandErr == [kind |-> "err", command |-> NoCmd]
CommandPanic == [kind |-> "panic", command |-> NoCmd]

\* Server::parse_command, for PING and ECHO
Server_parse_command(command_raw) ==
    LET r == RespParser_parse(command_raw)
    IN  IF r.kind = "panic" THEN CommandPanic
        ELSE IF r.kind = "err" THEN CommandErr
        ELSE IF r.value.t # "Array" THEN CommandErr
        ELSE LET elements == r.value.items
             IN  IF elements = <<>> THEN CommandErr
                 ELSE IF elements[1].t # "BulkString" THEN CommandErr
                 ELSE LET command_name == to_uppercase(elements[1].text)
                      IN  IF command_name = PING THEN CommandOk(Cmd("PING", "", <<>>, 0, 0))
                          ELSE IF command_name = ECHO
                          THEN IF Len(elements) # 2 THEN CommandErr
                               ELSE IF elements[2].t # "BulkString" THEN CommandErr
                               ELSE CommandOk(Cmd("ECHO", "", elements[2].text, 0, 0))
                          ELSE CommandErr

\* impl Display for RedisCommand (commands.rs): the frame of a command
command_frame(command) ==
    IF command.op = "PING"
    THEN <<ByteStar>> \o to_string(1) \o CRLF \o <<ByteDollar>> \o to_string(4) \o CRLF
         \o PING \o CRLF
    ELSE <<ByteStar>> \o to_string(2) \o CRLF \o <<ByteDollar>> \o to_string(4) \o CRLF
         \o ECHO \o CRLF \o <<ByteDollar>> \o to_string(Len(command.elems)) \o CRLF
         \o command.elems \o CRLF

\* RedisResponse (commands.rs), one record shape for every variant
RedisResponse(t, text) == [t |-> t, text |-> text]

\* Server::process_command_with_storage, for PING and ECHO
process_command_with_storage(command) ==
    IF command.op = "PING" THEN RedisResponse("Pong", <<>>)
    ELSE RedisResponse("BulkString", command.elems)

\* Value (types.rs), in the record shape of RespValue
WireValue(t, text, n, items) == RespValue(t, text, n, items)

\* the outcomes of parse_value: Ok(value) or Err, and what is left of buf
DecodeOk(value, rest) == [kind |-> "ok", value |-> value, rest |-> rest]
DecodeErr(rest) == [kind |-> "err", value |-> NoValue, rest |-> rest]

\* read_until_crlf: the bytes before the first CRLF; without one, the bytes
\* are taken from buf until fewer than two are left
read_until_crlf(buf) ==
    LET i == FirstCRLF(buf)
    IN  IF i # 0
        THEN [ok |-> TRUE, line |-> SubSeq(buf, 1, i - 1),
              rest |-> SubSeq(buf, i + 2, Len(buf))]
        ELSE [ok |-> FALSE, line |-> <<>>,
              rest |-> IF Len(buf) < 2 THEN buf ELSE SubSeq(buf, Len(buf), Len(buf))]

\* parse_simple_string
parse_simple_string(buf) ==
    LET line == read_until_crlf(buf)
    IN  IF ~line.ok THEN DecodeErr(line.rest)
        ELSE DecodeOk(WireValue("SimpleString", line.line, 0, <<>>), line.rest)

\* parse_bulk_string
parse_bulk_string(buf) ==
    LET length_str == read_until_crlf(buf)
        length == parse_i32(length_str.line)
        rest == length_str.rest
    IN  IF ~length_str.ok THEN DecodeErr(rest)
        ELSE IF ~length.ok THEN DecodeErr(rest)
        ELSE IF length.value = -1 THEN DecodeOk(WireValue("BulkString", <<>>, 0, <<>>), rest)
        ELSE IF length.value < 0 \/ Len(rest) < length.value + 2 THEN DecodeErr(rest)
        ELSE IF SubSeq(rest, length.value + 1, length.value + 2) # CRLF
        THEN DecodeErr(SubSeq(rest, length.value + 3, Len(rest)))
        ELSE DecodeOk(WireValue("BulkString", SubSeq(rest, 1, length.value), 0, <<>>),
                      SubSeq(rest, length.value + 3, Len(rest)))

DecodePanic == [kind |-> "panic", value |-> NoValue, rest |-> <<>>]

\* parse_integer: a line with a sign is parsed without its first byte and
\* multiplied by the sign; when the product overflows, a build with overflow
\* checks panics and a build without them wraps
parse_integer(buf, overflow_checks) ==
    LET line == read_until_crlf(buf)
        signed == line.line # <<>> /\ Head(line.line) \in {BytePlus, ByteMinus}
        number == parse_i64(IF signed THEN Tail(line.line) ELSE line.line)
        multiple == IF signed /\ Head(line.line) = ByteMinus THEN -1 ELSE 1
        product == number.value * multiple
    IN  IF ~line.ok THEN DecodeErr(line.rest)
        ELSE IF ~number.ok THEN DecodeErr(line.rest)
        ELSE IF MinInt <= product /\ product <= MaxInt
        THEN DecodeOk(WireValue("Integer", <<>>, product, <<>>), line.rest)
        ELSE IF overflow_checks THEN DecodePanic
        ELSE DecodeOk(WireValue("Integer", <<>>, ((product - MinInt) % 2^IntBits) + MinInt,
                                <<>>), line.rest)

\* parse_double, for the lines that are whole numbers
parse_double(buf) ==
    LET line == read_until_crlf(buf)
        number == parse_i64(line.line)
    IN  IF ~line.ok THEN DecodeErr(line.rest)
        ELSE IF ~number.ok THEN DecodeErr(line.rest)
        ELSE DecodeOk(WireValue("Double", <<>>, number.value, <<>>), line.rest)

RECURSIVE parse_value(_, _)
RECURSIVE parse_array_elements(_, _, _, _)

\* parse_array, the loop over the elements
parse_array_elements(buf, count, elements, overflow_checks) ==
    IF count = 0 THEN DecodeOk(WireValue("Array", <<>>, 0, elements), buf)
    ELSE LET r == parse_value(buf, overflow_checks)
         IN  IF r.kind # "ok" THEN r
             ELSE parse_array_elements(r.rest, count - 1, Append(elements, r.value),
                                       overflow_checks)

\* parse_array
parse_array(buf, overflow_checks) ==
    LET count_str == read_until_crlf(buf)
        count == parse_i32(count_str.line)
    IN  IF ~count_str.ok THEN DecodeErr(count_str.rest)
        ELSE IF ~count.ok THEN DecodeErr(count_str.rest)
        ELSE IF count.value < 0 THEN DecodeErr(count_str.rest)
        ELSE parse_array_elements(count_str.rest, count.value, <<>>, overflow_checks)

\* parse_value (types.rs): buf is advanced as the bytes are taken, whether the
\* parse ends with Ok or with Err
parse_value(buf, overflow_checks) ==
    IF buf = <<>> THEN DecodeErr(buf)
    ELSE LET first_byte == Head(buf)
             rest == Tail(buf)
         IN  IF first_byte = BytePlus THEN parse_simple_string(rest)
             ELSE IF first_byte = ByteDollar THEN parse_bulk_string(rest)
             ELSE IF first_byte = ByteStar THEN parse_array(rest, overflow_checks)
             ELSE IF first_byte = ByteColon THEN parse_integer(rest, overflow_checks)
             ELSE IF first_byte = ByteComma THEN parse_double(rest)
             ELSE DecodeErr(rest)

\* ------------------------------------------------------------ BlockingListManager
WaitingClient(client_id, blocked_since, timeout_duration, reg) ==
    [client_id |-> client_id, blocked_since |-> blocked_since,
     timeout_duration |-> timeout_duration, reg |-> reg]

\* mutant: a timeout of 0 becomes Some(0) instead of None
timeout_duration_zero_is_some(timeout_seconds) ==
    IF timeout_seconds >= 0 THEN timeout_seconds ELSE None

\* register_waiting_client: timeout_seconds > 0.0 gives Some(duration), else None
timeout_duration(timeout_seconds) ==
    IF timeout_seconds > 0 THEN timeout_seconds ELSE None

\* mutant: queue.push_front instead of push_back
register_waiting_client_front(waiting, list_key, client_id, timeout_seconds, t_now, reg) ==
    [waiting EXCEPT ![list_key] =
        <<WaitingClient(client_id, t_now,
                        IF timeout_seconds > 0 THEN timeout_seconds ELSE None, reg)>> \o @]

\* register_waiting_client: queue.push_back(WaitingClient {..})
register_waiting_client(waiting, list_key, client_id, timeout_seconds, t_now, reg) ==
    [waiting EXCEPT ![list_key] =
        Append(@, WaitingClient(client_id, t_now, timeout_duration(timeout_seconds), reg))]

\* mutant: the test of the queue is negated
has_waiting_clients_negated(waiting, list_key) == waiting[list_key] = <<>>

\* has_waiting_clients
has_waiting_clients(waiting, list_key) == waiting[list_key] # <<>>

\* mutant: queue.front() instead of pop_front(), the waiter stays registered
notify_next_waiting_client_peek(waiting, list_key) ==
    IF waiting[list_key] # <<>>
    THEN [waiting |-> waiting, client |-> <<Head(waiting[list_key])>>]
    ELSE [waiting |-> waiting, client |-> <<>>]

\* notify_next_waiting_client: queue.pop_front(); client = <<>> stands for
\* the return value false
notify_next_waiting_client(waiting, list_key) ==
    IF waiting[list_key] # <<>>
    THEN [waiting |-> [waiting EXCEPT ![list_key] = Tail(@)],
          client |-> <<Head(waiting[list_key])>>]
    ELSE [waiting |-> waiting, client |-> <<>>]

\* mutant: the duration is not added to blocked_since
timed_out_at_once(client, t_now) ==
    /\ client.timeout_duration # None
    /\ t_now - client.blocked_since >= 0

\* check_timeout: the predicate of queue.retain, negated
timed_out(client, t_now) ==
    /\ client.timeout_duration # None
    /\ t_now - client.blocked_since >= client.timeout_duration

\* check_timeout: queue.retain over every queue; expired are the waiters that
\* retain drops, in queue order
check_timeout(waiting, t_now) ==
    [waiting |-> [k \in Keys |-> SelectSeq(waiting[k], LAMBDA w : ~timed_out(w, t_now))],
     expired |-> [k \in Keys |-> SelectSeq(waiting[k], LAMBDA w : timed_out(w, t_now))]]

Element(list_key, element, reg) ==
    [type |-> "Element", list_key |-> list_key, element |-> element, reg |-> reg]
Timeout(reg) == [type |-> "Timeout", list_key |-> "", element |-> 0, reg |-> reg]

\* client.tx.send(response): the send fails (and is ignored) once the receiver
\* is dropped
send(mb, client, response) ==
    IF closed[client.client_id] THEN mb
    ELSE [mb EXCEPT ![client.client_id] = Append(@, response)]

RECURSIVE send_timeouts(_, _)
send_timeouts(mb, clients) ==
    IF clients = <<>> THEN mb
    ELSE send_timeouts(send(mb, Head(clients), Timeout(Head(clients).reg)), Tail(clients))

\* history of the sends: what was sent for each registration, and when
RECURSIVE log_sent(_, _, _)
log_sent(log, clients, entry) ==
    IF clients = <<>> THEN log
    ELSE log_sent([log EXCEPT ![Head(clients).reg] = Append(@, entry)], Tail(clients), entry)

RECURSIVE Flatten(_, _)
Flatten(f, order) ==
    IF order = <<>> THEN <<>> ELSE f[Head(order)] \o Flatten(f, Tail(order))

\* the orders in which a HashMap iteration may visit the keys
KeyOrders == {o \in [1..Cardinality(Keys) -> Keys] : Range(o) = Keys}

\* ------------------------------------------------------------ execute
IsTxCmd(command) == command.op \in {"MULTI", "EXEC", "DISCARD"}

\* pubsub.rs: is_command_allowed_in_subscribe_mode
is_command_allowed_in_subscribe_mode(command) ==
    command.op \in {"SUBSCRIBE", "PING", "UNSUBSCRIBE"}

\* number of BLPOP commands a sequence of commands holds
RECURSIVE CountOp(_, _)
CountOp(cmds, op) ==
    IF cmds = <<>> THEN 0
    ELSE (IF Head(cmds).op = op THEN 1 ELSE 0) + CountOp(Tail(cmds), op)

RECURSIVE SumOver(_, _)
SumOver(F(_), S) ==
    IF S = {} THEN 0
    ELSE LET x == CHOOSE y \in S : TRUE IN F(x) + SumOver(F, S \ {x})

Total(f) == LET F(c) == f[c] IN SumOver(F, DOMAIN f)

\* registrations made or still to be made by the commands in flight
PendingRegs ==
    LET F(c) == CountOp(todo[c], "BLPOP") + CountOp(tx_state[c].queue, "BLPOP")
    IN  Len(regs) + SumOver(F, Clients)

\* a command may be issued: the connection reads its socket, and the bounds
\* of the model leave room for it (MaxCmds bounds the commands that are not
\* queued in a transaction, MaxQueue those that are; a connection that is
\* alone on the server may send MaxSolo)
\* (client ids are numbered in the order of the connections' first commands)
Alone(c) == \A d \in Clients \ {c} : issued[d] = 0

CanIssue(c, command) ==
    /\ pc[c] = "idle"
    /\ \/ tx_state[c].active /\ ~IsTxCmd(command)
       \/ Total(issued) - queued < (IF Alone(c) THEN MaxSolo ELSE MaxCmds)
    /\ \A d \in Clients : d < c => issued[d] > 0
    /\ command.op \in {"RPUSH", "LPUSH"} => nextVal + Len(command.elems) - 1 <= MaxVal
    /\ command.op = "PUBLISH" => nextVal <= MaxVal
    /\ command.op = "BLPOP" => PendingRegs < MaxReg

\* the messages whose PUBLISH has been sent and has returned
PublishDone ==
    {m \in 1..MaxVal :
        /\ pubBefore[m].sent
        /\ \A c \in Clients : \A q \in {todo[c], tx_state[c].queue} :
              \A i \in 1..Len(q) : ~(q[i].op = "PUBLISH" /\ q[i].arg = m)}

Issued(c, command) ==
    /\ issued' = [issued EXCEPT ![c] = @ + 1]
    /\ queued' = IF tx_state[c].active /\ ~IsTxCmd(command) THEN queued + 1 ELSE queued
    /\ lastCmd' = [lastCmd EXCEPT ![c] = command.op]
    /\ nextVal' = IF command.op \in {"RPUSH", "LPUSH"} THEN nextVal + Len(command.elems)
                  ELSE IF command.op = "PUBLISH" THEN nextVal + 1 ELSE nextVal
    /\ pubBefore' = IF command.op = "PUBLISH"
                    THEN [pubBefore EXCEPT ![command.arg] =
                                [sent |-> TRUE, done |-> PublishDone]]
                    ELSE pubBefore
    /\ onlyIncr' = (onlyIncr /\ command.op = "INCR")
    /\ executed' = [executed EXCEPT ![c] = <<>>]

\* mutant: the queue is left as it is
queue_clear_kept(queue) == queue

\* self.tx_state.queue.clear()
queue_clear(queue) == <<>>

\* the elements of the pushes in a queue
Pushed(queue) ==
    UNION {Range(queue[i].elems) : i \in {j \in 1..Len(queue) : queue[j].op \in {"RPUSH", "LPUSH"}}}

\* execute, arm RedisCommand::Multi
ExecuteMulti(c) ==
    /\ CanIssue(c, Cmd("MULTI", "", <<>>, 0, 0))
    /\ Issued(c, Cmd("MULTI", "", <<>>, 0, 0))
    /\ tx_state' = [tx_state EXCEPT ![c] = [active |-> TRUE,
                                            queue |-> queue_clear(tx_state[c].queue)]]
    /\ reply' = [reply EXCEPT ![c] = Ok]
    /\ UNCHANGED <<shared, zsets, wire, boot, hub, now, closed, pub_sub_state, pub_sub_client, pc, todo, results,
                   inExec, tmp, regs, sent, observed, batch, dropped>>

\* mutant: EXEC does not look at tx_state.active
ExecuteExec_unchecked(c) ==
    /\ CanIssue(c, Cmd("EXEC", "", <<>>, 0, 0))
    /\ Issued(c, Cmd("EXEC", "", <<>>, 0, 0))
    /\ tx_state' = [tx_state EXCEPT ![c] = [active |-> FALSE, queue |-> <<>>]]
    /\ batch' = [batch EXCEPT ![c] = tx_state[c].queue]
    /\ IF tx_state[c].queue = <<>>
       THEN /\ reply' = [reply EXCEPT ![c] = Array(<<>>)]
            /\ UNCHANGED <<pc, todo, inExec>>
       ELSE /\ todo' = [todo EXCEPT ![c] = tx_state[c].queue]
            /\ inExec' = [inExec EXCEPT ![c] = TRUE]
            /\ pc' = [pc EXCEPT ![c] = "start"]
            /\ UNCHANGED reply
    /\ UNCHANGED <<shared, zsets, wire, boot, hub, now, closed, pub_sub_state, pub_sub_client, results, tmp,
                   regs, sent, observed, dropped>>

\* execute, arm RedisCommand::Exec
ExecuteExec(c) ==
    /\ CanIssue(c, Cmd("EXEC", "", <<>>, 0, 0))
    /\ Issued(c, Cmd("EXEC", "", <<>>, 0, 0))
    /\ IF ~tx_state[c].active
       THEN /\ reply' = [reply EXCEPT ![c] = RedisError("EXEC without MULTI")]
            /\ UNCHANGED <<tx_state, pc, todo, inExec, batch>>
       ELSE /\ tx_state' = [tx_state EXCEPT ![c] = [active |-> FALSE, queue |-> <<>>]]
            /\ batch' = [batch EXCEPT ![c] = tx_state[c].queue]
            /\ IF tx_state[c].queue = <<>>
               THEN /\ reply' = [reply EXCEPT ![c] = Array(<<>>)]
                    /\ UNCHANGED <<pc, todo, inExec>>
               ELSE /\ todo' = [todo EXCEPT ![c] = tx_state[c].queue]
                    /\ inExec' = [inExec EXCEPT ![c] = TRUE]
                    /\ pc' = [pc EXCEPT ![c] = "start"]
                    /\ UNCHANGED reply
    /\ UNCHANGED <<shared, zsets, wire, boot, hub, now, closed, pub_sub_state, pub_sub_client, results, tmp,
                   regs, sent, observed, dropped>>

\* execute, arm RedisCommand::Discard
ExecuteDiscard(c) ==
    /\ CanIssue(c, Cmd("DISCARD", "", <<>>, 0, 0))
    /\ Issued(c, Cmd("DISCARD", "", <<>>, 0, 0))
    /\ IF ~tx_state[c].active
       THEN /\ reply' = [reply EXCEPT ![c] = RedisError("DISCARD without MULTI")]
            /\ UNCHANGED <<tx_state, dropped>>
       ELSE /\ tx_state' = [tx_state EXCEPT ![c] = [active |-> FALSE,
                                                    queue |-> queue_clear(tx_state[c].queue)]]
            /\ dropped' = dropped \cup Pushed(tx_state[c].queue)
            /\ reply' = [reply EXCEPT ![c] = Ok]
    /\ UNCHANGED <<shared, zsets, wire, boot, hub, now, closed, pub_sub_state, pub_sub_client, pc, todo, results,
                   inExec, tmp, regs, sent, observed, batch>>

\* mutant: the command is put at the front of the queue
queue_push_front(queue, other) == <<other>> \o queue

\* execute, arm other: self.tx_state.queue.push(other)
queue_push(queue, other) == Append(queue, other)

\* execute, arm other
ExecuteOther(c, other) ==
    /\ ~IsTxCmd(other)
    /\ CanIssue(c, other)
    /\ tx_state[c].active => Len(tx_state[c].queue) < MaxQueue
    /\ Issued(c, other)
    /\ IF tx_state[c].active
       THEN /\ tx_state' = [tx_state EXCEPT ![c].queue = queue_push(@, other)]
            /\ reply' = [reply EXCEPT ![c] = Queued]
            /\ UNCHANGED <<pc, todo>>
       ELSE IF pub_sub_state[c] /\ other.op = "PING"
       THEN /\ reply' = [reply EXCEPT ![c] = Array(<<Str("pong"), Str("")>>)]
            /\ UNCHANGED <<tx_state, pc, todo>>
       ELSE IF pub_sub_state[c] /\ ~is_command_allowed_in_subscribe_mode(other)
       THEN /\ reply' = [reply EXCEPT ![c] = RedisError("Can't execute '" \o other.op \o "'")]
            /\ UNCHANGED <<tx_state, pc, todo>>
       ELSE /\ todo' = [todo EXCEPT ![c] = <<other>>]
            /\ pc' = [pc EXCEPT ![c] = "start"]
            /\ UNCHANGED <<tx_state, reply>>
    /\ UNCHANGED <<shared, zsets, wire, boot, hub, now, closed, pub_sub_state, pub_sub_client, results,
                   inExec, tmp, regs, sent, observed, batch, dropped>>

\* ------------------------------------------------------------ execute_primitive
\* mutant: the result is put at the front of results
results_push_front(rs, result) == <<result>> \o rs

\* execute, arm Exec: results.push(..)
results_push(rs, result) == Append(rs, result)

\* the primitive at the head of todo returns result: execute pushes it to
\* results (EXEC) or returns it, and hands the next queued command on
Return(c, result) ==
    LET rs == results_push(results[c], result)
        rest == Tail(todo[c])
    IN  /\ executed' = [executed EXCEPT ![c] =
                            IF inExec[c] THEN Append(@, <<Head(todo[c]), result>>) ELSE @]
        /\ tmp' = [tmp EXCEPT ![c] = NoTmp]
        /\ todo' = [todo EXCEPT ![c] = rest]
        /\ IF rest # <<>>
           THEN /\ results' = [results EXCEPT ![c] = rs]
                /\ pc' = [pc EXCEPT ![c] = "start"]
                /\ UNCHANGED <<reply, inExec>>
           ELSE /\ results' = [results EXCEPT ![c] = <<>>]
                /\ inExec' = [inExec EXCEPT ![c] = FALSE]
                /\ reply' = [reply EXCEPT ![c] = IF inExec[c] THEN Array(rs) ELSE result]
                /\ pc' = [pc EXCEPT ![c] =
                            IF ~inExec[c] /\ result = Blocked THEN "blocked" ELSE "idle"]

At(c, label, op) == pc[c] = label /\ Head(todo[c]).op = op

ConnFrameButSets ==
    UNCHANGED <<wire, boot, hub, now, closed, tx_state, lastCmd, counters, batch, dropped>>

ConnFrame == ConnFrameButSets /\ UNCHANGED zsets

\* the primitive goes on to its next .await
Goto(c, label, locals) ==
    /\ pc' = [pc EXCEPT ![c] = label]
    /\ tmp' = [tmp EXCEPT ![c] = locals]
    /\ UNCHANGED <<todo, results, reply, inExec, executed>>

head(c) == Head(todo[c])

\* arm Ping
Ping(c) ==
    /\ At(c, "start", "PING")
    /\ Return(c, Pong)
    /\ ConnFrame
    /\ UNCHANGED <<shared, pub_sub_state, pub_sub_client, regs, sent, observed>>

\* arm Set: storage.set
Set(c) ==
    /\ At(c, "start", "SET") /\ head(c).end = 0
    /\ data' = Storage_set(data, head(c).key, head(c).elems)
    /\ lastSet' = Written(head(c).key, head(c).elems, None)
    /\ Return(c, Ok)
    /\ ConnFrameButSets
    /\ UNCHANGED <<lists, waiting_clients, mailbox, channels, senders, psbox, sorted_sets,
                   zadded, pub_sub_state, pub_sub_client, regs, sent, observed>>

\* arm SetWithExpiry (a SET with PX, end = 1): storage.set_with_expiry
SetWithExpiry(c) ==
    /\ At(c, "start", "SET") /\ head(c).end = 1
    /\ data' = Storage_set_with_expiry(data, head(c).key, head(c).elems, head(c).arg, now)
    /\ lastSet' = Written(head(c).key, head(c).elems, head(c).arg)
    /\ Return(c, Ok)
    /\ ConnFrameButSets
    /\ UNCHANGED <<lists, waiting_clients, mailbox, channels, senders, psbox, sorted_sets,
                   zadded, pub_sub_state, pub_sub_client, regs, sent, observed>>

\* arm Zadd: storage.zadd
Zadd(c) ==
    /\ At(c, "start", "ZADD")
    /\ LET r == Storage_zadd(sorted_sets, head(c).key, head(c).arg, head(c).elems)
       IN  /\ sorted_sets' = r.sets
           /\ Return(c, Integer(r.added))
    /\ zadded' = IF is_finite(head(c).arg)
                 THEN zadded \cup {<<head(c).key, head(c).elems, head(c).arg>>}
                 ELSE zadded
    /\ ConnFrameButSets
    /\ UNCHANGED lastSet
    /\ UNCHANGED <<shared, pub_sub_state, pub_sub_client, regs, sent, observed>>

\* arm Zrange: storage.zrange
Zrange(c) ==
    /\ At(c, "start", "ZRANGE")
    /\ LET r == Storage_zrange(sorted_sets, head(c).key, head(c).arg, head(c).end)
       IN  Return(c, IF r.some THEN Array(SeqMap(Value, r.members)) ELSE Array(<<>>))
    /\ ConnFrame
    /\ UNCHANGED <<shared, pub_sub_state, pub_sub_client, regs, sent, observed>>

\* arm Zcard: storage.zcard
Zcard(c) ==
    /\ At(c, "start", "ZCARD")
    /\ LET cardinality == Storage_zcard(sorted_sets, head(c).key)
       IN  Return(c, IF cardinality # None THEN Integer(cardinality) ELSE Integer(0))
    /\ ConnFrame
    /\ UNCHANGED <<shared, pub_sub_state, pub_sub_client, regs, sent, observed>>

\* arm Geoadd: the pair is validated, then storage.zadd with the encoded score
Geoadd(c) ==
    /\ At(c, "start", "GEOADD")
    /\ LET longitude == head(c).arg
           latitude == head(c).end
       IN  IF ~is_valid_longitude(longitude) \/ ~is_valid_latitude(latitude)
           THEN /\ Return(c, RedisError("invalid longitude,latitude pair"))
                /\ UNCHANGED <<sorted_sets, zadded>>
           ELSE LET score == Fin(geospatial_encode(latitude, longitude))
                IN  /\ sorted_sets' =
                           Storage_zadd(sorted_sets, head(c).key, score, head(c).elems).sets
                    /\ zadded' = zadded \cup {<<head(c).key, head(c).elems, score>>}
                    /\ Return(c, Integer(1))
    /\ ConnFrameButSets
    /\ UNCHANGED lastSet
    /\ UNCHANGED <<shared, pub_sub_state, pub_sub_client, regs, sent, observed>>

\* arm Get: storage.get
Get(c) ==
    /\ At(c, "start", "GET")
    /\ LET value == Storage_get(data, head(c).key, now)
       IN  /\ data' = value.map
           /\ Return(c, IF value.some THEN Value(value.value) ELSE Nil)
    /\ ConnFrame
    /\ UNCHANGED <<lists, waiting_clients, mailbox, channels, senders, psbox,
                   pub_sub_state, pub_sub_client, regs, sent, observed>>

\* the task of connection c panics: it ends without a reply, its
\* CommandProcessor and both receivers are dropped
Panics(c) ==
    /\ closed' = [closed EXCEPT ![c] = TRUE]
    /\ pc' = [pc EXCEPT ![c] = "closed"]
    /\ mailbox' = [mailbox EXCEPT ![c] = <<>>]
    /\ psbox' = [psbox EXCEPT ![c] = <<>>]
    /\ tx_state' = [tx_state EXCEPT ![c] = [active |-> FALSE, queue |-> <<>>]]
    /\ pub_sub_state' = [pub_sub_state EXCEPT ![c] = FALSE]
    /\ pub_sub_client' = [pub_sub_client EXCEPT ![c] = {}]
    /\ reply' = [reply EXCEPT ![c] = NoReply]
    /\ todo' = [todo EXCEPT ![c] = <<>>]
    /\ results' = [results EXCEPT ![c] = <<>>]
    /\ inExec' = [inExec EXCEPT ![c] = FALSE]
    /\ tmp' = [tmp EXCEPT ![c] = NoTmp]
    /\ executed' = [executed EXCEPT ![c] = <<>>]
    /\ batch' = [batch EXCEPT ![c] = <<>>]
    /\ UNCHANGED <<lists, data, waiting_clients, channels, senders, zsets, wire, boot, hub, now, lastCmd,
                   counters, regs, sent, observed, dropped>>

\* arm Incr, first lock: storage.get, the parse and value + 1
IncrGet(c) ==
    /\ At(c, "start", "INCR")
    /\ LET value_str == Storage_get(data, head(c).key, now)
           parsed == parse_i64(value_str.value)
           sums == IF ~value_str.some THEN {[panic |-> FALSE, value |-> 1]}
                   ELSE IF parsed.ok THEN add_one(parsed.value)
                   ELSE {[panic |-> FALSE, value |-> 0]}
       IN  \E new_value \in sums :
               IF value_str.some /\ ~parsed.ok
               THEN /\ Return(c, RedisError("value is not an integer or out of range"))
                    /\ ConnFrame
                    /\ data' = value_str.map
                    /\ UNCHANGED <<lists, waiting_clients, mailbox, channels, senders,
                                   psbox, pub_sub_state, pub_sub_client,
                                   regs, sent, observed>>
               ELSE IF new_value.panic
               THEN Panics(c)
               ELSE /\ Goto(c, "incr_set", [tmp[c] EXCEPT !.len = new_value.value])
                    /\ ConnFrame
                    /\ data' = value_str.map
                    /\ UNCHANGED <<lists, waiting_clients, mailbox, channels, senders,
                                   psbox, pub_sub_state, pub_sub_client,
                                   regs, sent, observed>>

\* arm Incr, second lock: storage.set of new_value.to_string()
IncrSet(c) ==
    /\ At(c, "incr_set", "INCR")
    /\ data' = Storage_set(data, head(c).key, to_string(tmp[c].len))
    /\ lastSet' = Written(head(c).key, to_string(tmp[c].len), None)
    /\ Return(c, Integer(tmp[c].len))
    /\ ConnFrameButSets
    /\ UNCHANGED <<sorted_sets, zadded>>
    /\ UNCHANGED <<lists, waiting_clients, mailbox, channels, senders, psbox,
                   pub_sub_state, pub_sub_client, regs, sent, observed>>

\* arm Rpush, first lock: storage.rpush; was_empty && .. short-circuits
Rpush(c) ==
    /\ At(c, "start", "RPUSH")
    /\ LET r == rpush(lists[head(c).key], head(c).elems)
       IN  /\ lists' = [lists EXCEPT ![head(c).key] = r.list]
           /\ IF r.was_empty
              THEN Goto(c, "has_waiting",
                        [tmp[c] EXCEPT !.len = r.len, !.was_empty = r.was_empty])
              ELSE Return(c, Integer(r.len))
    /\ ConnFrame
    /\ UNCHANGED <<data, waiting_clients, mailbox, channels, senders, psbox,
                   pub_sub_state, pub_sub_client, regs, sent, observed>>

\* arm Rpush, second lock: blocking_list_manager.has_waiting_clients
RpushHasWaiting(c) ==
    /\ At(c, "has_waiting", "RPUSH")
    /\ IF has_waiting_clients(waiting_clients, head(c).key)
       THEN Goto(c, "rpush_lpop", tmp[c])
       ELSE Return(c, Integer(tmp[c].len))
    /\ ConnFrame
    /\ UNCHANGED <<shared, pub_sub_state, pub_sub_client, regs, sent, observed>>

\* arm Rpush, third lock: storage.lpop(list, Some(1))
RpushLpop(c) ==
    /\ At(c, "rpush_lpop", "RPUSH")
    /\ LET r == lpop(lists[head(c).key], 1)
       IN  /\ lists' = [lists EXCEPT ![head(c).key] = r.list]
           /\ IF r.popped # <<>>
              THEN Goto(c, "notify", [tmp[c] EXCEPT !.popped = r.popped[1]])
              ELSE Return(c, Integer(tmp[c].len))
    /\ ConnFrame
    /\ UNCHANGED <<data, waiting_clients, mailbox, channels, senders, psbox,
                   pub_sub_state, pub_sub_client, regs, sent, observed>>

\* arm Rpush, fourth lock: blocking_list_manager.notify_next_waiting_client
RpushNotify(c) ==
    /\ At(c, "notify", "RPUSH")
    /\ LET r == notify_next_waiting_client(waiting_clients, head(c).key)
       IN  /\ waiting_clients' = r.waiting
           /\ IF r.client # <<>>
              THEN /\ mailbox' = send(mailbox, r.client[1],
                                      Element(head(c).key, tmp[c].popped, r.client[1].reg))
                   /\ sent' = log_sent(sent, r.client, [type |-> "Element",
                                       element |-> tmp[c].popped, at |-> now])
              ELSE UNCHANGED <<mailbox, sent>>
    /\ Return(c, Integer(tmp[c].len))
    /\ ConnFrame
    /\ UNCHANGED <<lists, data, channels, senders, psbox,
                   pub_sub_state, pub_sub_client, regs, observed>>

\* arm Lpush: storage.lpush
Lpush(c) ==
    /\ At(c, "start", "LPUSH")
    /\ LET r == lpush(lists[head(c).key], head(c).elems)
       IN  /\ lists' = [lists EXCEPT ![head(c).key] = r.list]
           /\ Return(c, Integer(r.len))
    /\ ConnFrame
    /\ UNCHANGED <<data, waiting_clients, mailbox, channels, senders, psbox,
                   pub_sub_state, pub_sub_client, regs, sent, observed>>

\* arm Lrange: storage.lrange
Lrange(c) ==
    /\ At(c, "start", "LRANGE")
    /\ LET members == lrange(lists[head(c).key], head(c).arg, head(c).end)
       IN  /\ observed' = observed \cup {<<c, m>> : m \in Range(members)}
           /\ Return(c, Array(SeqMap(Value, members)))
    /\ ConnFrame
    /\ UNCHANGED <<shared, pub_sub_state, pub_sub_client, regs, sent>>

\* arm Llen: storage.llen
Llen(c) ==
    /\ At(c, "start", "LLEN")
    /\ Return(c, Integer(llen(lists[head(c).key])))
    /\ ConnFrame
    /\ UNCHANGED <<shared, pub_sub_state, pub_sub_client, regs, sent, observed>>

\* arm Lpop: storage.lpop(key, count)
Lpop(c) ==
    /\ At(c, "start", "LPOP")
    /\ LET r == lpop(lists[head(c).key], head(c).arg)
       IN  /\ lists' = [lists EXCEPT ![head(c).key] = r.list]
           /\ Return(c, IF r.popped = <<>> THEN Nil
                        ELSE IF Len(r.popped) = 1 THEN Value(r.popped[1])
                        ELSE Array(SeqMap(Value, r.popped)))
    /\ ConnFrame
    /\ UNCHANGED <<data, waiting_clients, mailbox, channels, senders, psbox,
                   pub_sub_state, pub_sub_client, regs, sent, observed>>

\* arm Blpop, first lock: storage.lpop(key, Some(1))
Blpop(c) ==
    /\ At(c, "start", "BLPOP")
    /\ LET r == lpop(lists[head(c).key], 1)
       IN  /\ lists' = [lists EXCEPT ![head(c).key] = r.list]
           /\ IF r.popped # <<>>
              THEN Return(c, Array(<<Str(head(c).key), Value(r.popped[1])>>))
              ELSE Goto(c, "register", tmp[c])
    /\ ConnFrame
    /\ UNCHANGED <<data, waiting_clients, mailbox, channels, senders, psbox,
                   pub_sub_state, pub_sub_client, regs, sent, observed>>

\* arm Blpop, second lock: blocking_list_manager.register_waiting_client
BlpopRegister(c) ==
    /\ At(c, "register", "BLPOP")
    /\ waiting_clients' = register_waiting_client(waiting_clients, head(c).key, c,
                                                  head(c).arg, now, Len(regs) + 1)
    /\ regs' = Append(regs, [key |-> head(c).key, client_id |-> c, blocked_since |-> now,
                             timeout_seconds |-> head(c).arg])
    /\ Return(c, Blocked)
    /\ ConnFrame
    /\ UNCHANGED <<lists, data, mailbox, channels, senders, psbox,
                   pub_sub_state, pub_sub_client, sent, observed>>

\* PubSubManager::subscribe
subscribe(chans, client_id, channel) == [chans EXCEPT ![channel] = @ \cup {client_id}]

\* mutant: the hub keeps the client in the channel
unsubscribe_kept(chans, client_id, channel) == chans

\* PubSubManager::unsubscribe
unsubscribe(chans, client_id, channel) == [chans EXCEPT ![channel] = @ \ {client_id}]

\* arm Subscribe: pub_sub_client.subscribe is HashSet::insert, true when the
\* channel was not in the set
Subscribe(c) ==
    /\ At(c, "start", "SUBSCRIBE")
    /\ IF head(c).key \notin pub_sub_client[c]
       THEN /\ pub_sub_client' = [pub_sub_client EXCEPT ![c] = @ \cup {head(c).key}]
            /\ pub_sub_state' = [pub_sub_state EXCEPT ![c] = TRUE]
            /\ channels' = subscribe(channels, c, head(c).key)
            /\ Return(c, Array(<<Str("subscribe"), Str(head(c).key),
                                 Integer(Cardinality(pub_sub_client[c] \cup {head(c).key}))>>))
       ELSE /\ Return(c, RedisError("Failed to subscribe to the channel"))
            /\ UNCHANGED <<pub_sub_client, pub_sub_state, channels>>
    /\ ConnFrame
    /\ UNCHANGED <<lists, data, waiting_clients, mailbox, senders, psbox, regs, sent, observed>>

\* mutant: the mode is left as it is
active_after_kept(count, active) == active

\* arm Unsubscribe: if count == 0 { self.pub_sub_state.active = false }
active_after(count, active) == IF count = 0 THEN FALSE ELSE active

\* arm Unsubscribe
Unsubscribe(c) ==
    /\ At(c, "start", "UNSUBSCRIBE")
    /\ LET mine == pub_sub_client[c] \ {head(c).key}
       IN  /\ pub_sub_client' = [pub_sub_client EXCEPT ![c] = mine]
           /\ channels' = unsubscribe(channels, c, head(c).key)
           /\ pub_sub_state' = [pub_sub_state EXCEPT ![c] = active_after(Cardinality(mine), @)]
           /\ Return(c, Array(<<Str("unsubscribe"), Str(head(c).key),
                                Integer(Cardinality(mine))>>))
    /\ ConnFrame
    /\ UNCHANGED <<lists, data, waiting_clients, mailbox, senders, psbox, regs, sent, observed>>

PubSubMessage(channel, message) == [channel |-> channel, message |-> message]

\* mutant: the message overtakes the ones in the mailbox
sender_send_front(box, message) == <<message>> \o box

\* sender.send on the subscriber's unbounded channel
sender_send(box, message) == Append(box, message)

\* arm Publish, first lock (channels): snapshot of the subscribers
Publish(c) ==
    /\ At(c, "start", "PUBLISH")
    /\ IF channels[head(c).key] = {}
       THEN Return(c, Integer(0))
       ELSE Goto(c, "publish_send", [tmp[c] EXCEPT !.subs = channels[head(c).key]])
    /\ ConnFrame
    /\ UNCHANGED <<shared, pub_sub_state, pub_sub_client, regs, sent, observed>>

\* arm Publish, second lock (senders): send to every subscriber with a mailbox
PublishSend(c) ==
    /\ At(c, "publish_send", "PUBLISH")
    /\ psbox' = [d \in Clients |->
                    IF d \in tmp[c].subs /\ d \in senders /\ ~closed[d]
                    THEN sender_send(psbox[d], PubSubMessage(head(c).key, head(c).arg))
                    ELSE psbox[d]]
    /\ Return(c, Integer(Cardinality(tmp[c].subs)))
    /\ ConnFrame
    /\ UNCHANGED <<lists, data, waiting_clients, mailbox, channels, senders,
                   pub_sub_state, pub_sub_client, regs, sent, observed>>

\* ------------------------------------------------------------ the connection task
\* a blocked connection takes the reply out of its mailbox and answers the
\* client: Element as [key, element], Timeout as the nil array
Wake(c) ==
    /\ pc[c] = "blocked"
    /\ mailbox[c] # <<>>
    /\ mailbox' = [mailbox EXCEPT ![c] = Tail(@)]
    /\ reply' = [reply EXCEPT ![c] =
                    IF Head(mailbox[c]).type = "Element"
                    THEN Array(<<Str(Head(mailbox[c]).list_key), Value(Head(mailbox[c]).element)>>)
                    ELSE NullArray]
    /\ pc' = [pc EXCEPT ![c] = "idle"]
    /\ UNCHANGED <<lists, data, waiting_clients, channels, senders, psbox, zsets, wire, boot, hub, now, closed,
                   tx_state, pub_sub_state, pub_sub_client, todo, results, inExec, tmp,
                   lastCmd, counters, hist>>

\* PubSubManager::unregister_client
unregister_client(snd, client_id) == snd \ {client_id}

\* the connection closes: its task ends and its CommandProcessor and both
\* receivers are dropped, PubSubManager::unregister_client removes its sender;
\* BlockingListManager has no operation that removes a waiter of a given client
Close(c) ==
    /\ pc[c] \in {"idle", "blocked"}
    /\ issued[c] > 0
    /\ closed' = [closed EXCEPT ![c] = TRUE]
    /\ pc' = [pc EXCEPT ![c] = "closed"]
    /\ mailbox' = [mailbox EXCEPT ![c] = <<>>]
    /\ psbox' = [psbox EXCEPT ![c] = <<>>]
    /\ senders' = unregister_client(senders, c)
    /\ tx_state' = [tx_state EXCEPT ![c] = [active |-> FALSE, queue |-> <<>>]]
    /\ pub_sub_state' = [pub_sub_state EXCEPT ![c] = FALSE]
    /\ pub_sub_client' = [pub_sub_client EXCEPT ![c] = {}]
    /\ reply' = [reply EXCEPT ![c] = NoReply]
    /\ lastCmd' = [lastCmd EXCEPT ![c] = "NONE"]
    /\ executed' = [executed EXCEPT ![c] = <<>>]
    /\ batch' = [batch EXCEPT ![c] = <<>>]
    /\ UNCHANGED <<lists, data, waiting_clients, channels, zsets, wire, boot, hub, now,
                   todo, results, inExec, tmp, counters, regs, sent, observed, dropped>>

\* the frames of the values a buffer may hold: +OK, a bulk string, the array
\* of a PING, two integers, a double
Frames ==
    {<<BytePlus, 79, 75>> \o CRLF,
     <<ByteDollar>> \o to_string(1) \o CRLF \o <<ByteA>> \o CRLF,
     <<ByteStar>> \o to_string(1) \o CRLF \o <<ByteDollar>> \o to_string(4) \o CRLF
         \o PING \o CRLF,
     <<ByteColon>> \o to_string(5) \o CRLF,
     <<ByteColon, ByteMinus>> \o to_string(MinInt) \o CRLF,
     <<ByteComma>> \o to_string(1) \o CRLF}

\* the buffers: a frame, or two, cut anywhere
DecodeInputs ==
    UNION {{SubSeq(f \o g, 1, n) : n \in 1..Len(f \o g)} : f \in Frames, g \in Frames \cup {<<>>}}

\* the frames of a sequence of commands, one after the other
RECURSIVE frames(_)
frames(commands) ==
    IF commands = <<>> THEN <<>>
    ELSE command_frame(Head(commands)) \o frames(Tail(commands))

\* the commands a client of handle_connection sends
WireCmds == {Cmd("PING", "", <<>>, 0, 0), Cmd("ECHO", "", <<ByteA>>, 0, 0)}

\* a client connects and writes a pipeline of commands to its socket
SendPipeline ==
    /\ task = "new"
    /\ \E n \in 1..MaxPipeline : \E commands \in [1..n -> WireCmds] :
           /\ pipeline' = commands
           /\ socket' = frames(commands)
    /\ task' = "open"
    /\ UNCHANGED <<shared, zsets, replies, inbuf, decoded, boot, hub, now, closed, conn, counters, hist>>

\* handle_connection, one turn of the loop: read_buf returns some of the bytes
\* that have arrived, the whole buffer is parsed as one command, and the
\* response, or the error of the parse, is written
ReadBuf ==
    /\ task = "open"
    /\ socket # <<>>
    /\ \E bytes_read \in 1..Min(Len(socket), ReadCap) :
           LET command_raw == SubSeq(socket, 1, bytes_read)
               parsed == Server_parse_command(command_raw)
           IN  /\ socket' = SubSeq(socket, bytes_read + 1, Len(socket))
               /\ IF parsed.kind = "panic"
                  THEN task' = "dead" /\ UNCHANGED replies
                  ELSE /\ replies' = Append(replies,
                               IF parsed.kind = "ok"
                               THEN process_command_with_storage(parsed.command)
                               ELSE RedisResponse("Error", "Unknown command"))
                       /\ UNCHANGED task
    /\ UNCHANGED <<shared, zsets, pipeline, inbuf, decoded, boot, hub, now, closed, conn, counters, hist>>

\* RedisResponse::from_result (redis_response.rs): the bytes of a result, as
\* the list of its RESP type bytes with what each one carries; Blocked panics
Encoded(bytes) == [ok |-> TRUE, data |-> bytes]
EncodePanic == [ok |-> FALSE, data |-> <<>>]

RECURSIVE from_result(_)
RECURSIVE from_result_elements(_, _)

\* the loop of the arm Array
from_result_elements(elements, bytes) ==
    IF elements = <<>> THEN Encoded(bytes)
    ELSE LET part == from_result(Head(elements))
         IN  IF ~part.ok THEN EncodePanic
             ELSE from_result_elements(Tail(elements), bytes \o part.data)

from_result(result) ==
    IF result.t \in {"Pong", "Ok", "Queued"} THEN Encoded(<<<<"+", result.t>>>>)
    ELSE IF result.t \in {"Value", "Str"} THEN Encoded(<<<<"$", result.t>>>>)
    ELSE IF result.t = "Nil" THEN Encoded(<<<<"$", "-1">>>>)
    ELSE IF result.t = "Integer" THEN Encoded(<<<<":", result.t>>>>)
    ELSE IF result.t = "Array"
    THEN from_result_elements(result.items, <<<<"*", result.t>>>>)
    ELSE IF result.t = "NullArray" THEN Encoded(<<<<"*", "-1">>>>)
    ELSE IF result.t = "RedisError" THEN Encoded(<<<<"-", result.t>>>>)
    ELSE EncodePanic

\* a buffer of bytes is handed to the decoder
Receive ==
    /\ inbuf = <<>> /\ decoded = <<>>
    /\ \E buf \in DecodeInputs : inbuf' = buf
    /\ UNCHANGED <<shared, zsets, pipeline, socket, replies, task, decoded, boot, hub,
                   now, closed, conn, counters, hist>>

\* parse_value is called on what is left of the buffer
Decode ==
    /\ inbuf # <<>>
    /\ (decoded # <<>> => decoded[Len(decoded)].kind # "panic")
    /\ \E overflow_checks \in BOOLEAN :
           LET r == parse_value(inbuf, overflow_checks)
           IN  /\ decoded' = Append(decoded, [input |-> inbuf, kind |-> r.kind,
                                              value |-> r.value, rest |-> r.rest])
               /\ inbuf' = r.rest
    /\ UNCHANGED <<shared, zsets, pipeline, socket, replies, task, boot, hub,
                   now, closed, conn, counters, hist>>

\* ------------------------------------------------------------ PubSubManager, task by task
\* the channel of the runs with one channel
TheChannel == CHOOSE ch \in Channels : TRUE

\* PubSubManager::subscribe, under the write lock of channels
HubSubscribe(s) ==
    /\ s \notin hub_channel
    /\ hub_channel' = hub_channel \cup {s}
    /\ UNCHANGED <<shared, zsets, wire, boot, publishing, inbox,
                   now, closed, conn, counters, hist>>

\* PubSubManager::publish, under the read lock of channels: the clone of the
\* set of subscribers and its length
HubPublish(p) ==
    /\ publishing[p].pc = "new"
    /\ publishing' = [publishing EXCEPT ![p] =
                         IF hub_channel = {}
                         THEN [pc |-> "done", subscribers |-> {}, count |-> 0]
                         ELSE [pc |-> "send", subscribers |-> hub_channel,
                               count |-> Cardinality(hub_channel)]]
    /\ UNCHANGED <<shared, zsets, wire, boot, hub_channel, inbox,
                   now, closed, conn, counters, hist>>

\* PubSubManager::publish, under the read lock of senders, which the tasks
\* of two publishers hold together: one turn of the loop over the clone, in
\* the order the HashSet gives; the message of publisher p is p
HubSend(p) ==
    /\ publishing[p].pc = "send"
    /\ \E client_id \in publishing[p].subscribers :
           LET rest == publishing[p].subscribers \ {client_id}
           IN  /\ inbox' = [inbox EXCEPT ![client_id] =
                                sender_send(@, PubSubMessage(TheChannel, p))]
               /\ publishing' = [publishing EXCEPT ![p] =
                                    [pc |-> IF rest = {} THEN "done" ELSE "send",
                                     subscribers |-> rest, count |-> @.count]]
    /\ UNCHANGED <<shared, zsets, wire, boot, hub_channel,
                   now, closed, conn, counters, hist>>

\* ------------------------------------------------------------ the snapshot
MsPerSecond == 1000

\* an entry of the database section: the marker 0xFC, 0xFD or 0x00, the
\* expiry as it is written after the marker, the key and the value
RdbEntry(marker, raw, key, value) ==
    [marker |-> marker, raw |-> raw, key |-> key, value |-> value]

RdbFile(keys, expiry_times) == [keys |-> keys, expiry_times |-> expiry_times]

RECURSIVE parse_database(_, _)

\* RdbParser::parse_database, the loop over the entries
parse_database(entries, rdb) ==
    IF entries = <<>> THEN rdb
    ELSE LET entry == Head(entries)
             keys == map_insert(rdb.keys, entry.key, entry.value)
         IN  parse_database(Tail(entries),
                 IF entry.marker = "FD"
                 THEN RdbFile(keys, map_insert(rdb.expiry_times, entry.key,
                                               entry.raw * MsPerSecond))
                 ELSE IF entry.marker = "FC"
                 THEN RdbFile(keys, map_insert(rdb.expiry_times, entry.key, entry.raw))
                 ELSE RdbFile(keys, rdb.expiry_times))

\* expiry_times.get(&key).copied()
expiry_of(rdb, key) == IF key \in DOMAIN rdb.expiry_times THEN rdb.expiry_times[key] ELSE None

\* RdbHandler::load_rdb_file: the (key, value, expiry) of the keys that are
\* not past their expiry
load_rdb_file(rdb, wall_ms) ==
    [key \in {k \in DOMAIN rdb.keys : ~(expiry_of(rdb, k) # None /\ wall_ms > expiry_of(rdb, k))}
        |-> [value |-> rdb.keys[key], expiry |-> expiry_of(rdb, key)]]

\* StorageValue::new (server.rs): the expiry it is given is added to the
\* time of the call
StorageValue_new(value, expiry_ms, wall_ms) ==
    [value |-> value,
     expiry_ms |-> IF expiry_ms = None THEN None ELSE wall_ms + expiry_ms]

\* StorageValue::is_expired
StorageValue_is_expired(storage_value, wall_ms) ==
    storage_value.expiry_ms # None /\ wall_ms > storage_value.expiry_ms

\* the snapshot files: one key, written with 0xFC and milliseconds, with 0xFD
\* and seconds, or with no expiry
RdbFiles ==
    {<<RdbEntry("FC", s * MsPerSecond + d, k, <<ByteA>>)>> :
        s \in 0..MaxSecs, d \in 0..1, k \in Keys}
    \cup {<<RdbEntry("FD", s, k, <<ByteA>>)>> : s \in 0..MaxSecs, k \in Keys}
    \cup {<<RdbEntry("00", 0, k, <<ByteA>>)>> : k \in Keys}

\* main: the snapshot named by dir and dbfilename is loaded before the
\* listener is bound
LoadRdb ==
    /\ rdb_file = <<>> /\ storage = <<>>
    /\ \E entries \in RdbFiles :
           LET rdb_data == load_rdb_file(parse_database(entries, RdbFile(<<>>, <<>>)), wall)
           IN  /\ rdb_file' = entries
               /\ storage' = [key \in DOMAIN rdb_data |->
                                 StorageValue_new(rdb_data[key].value, rdb_data[key].expiry, wall)]
    /\ UNCHANGED <<shared, zsets, wire, hub, wall, fetched, now, closed, conn, counters, hist>>

\* Server::process_command_with_storage, arm Get
ServerGet ==
    /\ rdb_file # <<>>
    /\ \E key \in Keys :
           IF key \in DOMAIN storage
           THEN IF ~StorageValue_is_expired(storage[key], wall)
                THEN /\ fetched' = [key |-> key, t |-> "BulkString",
                                    text |-> storage[key].value, at |-> wall]
                     /\ UNCHANGED storage
                ELSE /\ fetched' = [key |-> key, t |-> "Nil", text |-> <<>>, at |-> wall]
                     /\ storage' = map_remove(storage, key)
           ELSE /\ fetched' = [key |-> key, t |-> "Nil", text |-> <<>>, at |-> wall]
                /\ UNCHANGED storage
    /\ UNCHANGED <<shared, zsets, wire, hub, wall, rdb_file, now, closed, conn, counters, hist>>

\* the wall clock advances, by a millisecond or by a second
WallTick ==
    /\ \E step \in {1, MsPerSecond} :
           /\ step = 1 => wall % MsPerSecond < MaxMillis
           /\ wall + step <= (MaxSecs + 1) * MsPerSecond + MaxMillis
           /\ wall' = wall + step
    /\ UNCHANGED <<shared, zsets, wire, hub, storage, rdb_file, fetched,
                   now, closed, conn, counters, hist>>

\* ------------------------------------------------------------ clock and sweeper
AllWaiters == UNION {Range(waiting_clients[k]) : k \in Keys}

\* the clock advances; the model stops it at MaxTime unless a timer is running
Tick ==
    /\ \/ now < MaxTime
       \/ \E w \in AllWaiters : w.timeout_duration # None /\ ~timed_out(w, now)
       \/ \E k \in DOMAIN data : data[k].expires_at # None /\ ~is_expired(data[k], now)
    /\ now' = now + 1
    /\ UNCHANGED <<shared, zsets, wire, boot, hub, closed, conn, counters, hist>>

\* the periodic sweeper task: BlockingListManager::check_timeout
Sweep ==
    \E order \in KeyOrders :
        LET r == check_timeout(waiting_clients, now)
            gone == Flatten(r.expired, order)
        IN  /\ waiting_clients' = r.waiting
            /\ mailbox' = send_timeouts(mailbox, gone)
            /\ sent' = log_sent(sent, gone, [type |-> "Timeout", element |-> 0, at |-> now])
            /\ UNCHANGED <<lists, data, channels, senders, psbox, zsets, wire, boot, hub, now, closed, conn,
                           counters, regs, observed, executed, batch, dropped>>

\* ------------------------------------------------------------ specifications
RpushCmd(k, n) == Cmd("RPUSH", k, [i \in 1..n |-> nextVal + i - 1], 0, 0)
LpushCmd(k, n) == Cmd("LPUSH", k, [i \in 1..n |-> nextVal + i - 1], 0, 0)

\* the list commands a client may send
ListCmds ==
    UNION {{RpushCmd(k, 1), Cmd("LPOP", k, <<>>, None, 0), Cmd("LRANGE", k, <<>>, 0, -1)}
           \cup {Cmd("BLPOP", k, <<>>, t, 0) : t \in 0..MaxTimeout} : k \in Keys}

\* the steps of the list primitives
ListStep(c) ==
    \/ Rpush(c) \/ RpushHasWaiting(c) \/ RpushLpop(c) \/ RpushNotify(c)
    \/ Lrange(c) \/ Lpop(c)
    \/ Blpop(c) \/ BlpopRegister(c)

\* a blocked connection closes (closing an idle connection, which has no
\* waiter, changes nothing in the lists or the registry)
CloseBlocked(c) == pc[c] = "blocked" /\ Close(c)

\* a client sends a list command
ListCommand(c) == \E command \in ListCmds : ExecuteOther(c, command)

\* lists and the blocking-pop registry: connections, clock and sweeper
Next ==
    \/ \E c \in Clients : ListCommand(c)
    \/ \E c \in Clients : ListStep(c)
    \/ \E c \in Clients : Wake(c)
    \/ \E c \in Clients : CloseBlocked(c)
    \/ Tick
    \/ Sweep

Spec == Init /\ [][Next]_vars

\* ------------------------------------------------------------ claims: registry
\* registration r is still in the registry
Registered(r) == \E w \in AllWaiters : w.reg = r

RegsOf(q) == {q[i].reg : i \in 1..Len(q)}

\* C1: the element handed to a waiter was never shown to another connection:
\* no LRANGE reply of any connection holds an element that was sent to a
\* waiter as Element
C1_HandoffAtomic ==
    \A r \in 1..MaxReg : \A i \in 1..Len(sent[r]) :
        sent[r][i].type = "Element" =>
            \A c \in Clients : <<c, sent[r][i].element>> \notin observed

\* every queue holds its waiters in the order of their registration
QueuesInRegOrder ==
    \A k \in Keys : \A i, j \in 1..Len(waiting_clients[k]) :
        i < j => waiting_clients[k][i].reg < waiting_clients[k][j].reg

\* a step that sends Element for registration r finds r registered, and the
\* earliest registered of its key, and removes r alone
ElementToOldest ==
    \A r \in 1..Len(regs) :
        (/\ Len(sent'[r]) > Len(sent[r])
         /\ sent'[r][Len(sent'[r])].type = "Element")
        => LET q == waiting_clients[regs[r].key]
               newq == waiting_clients'[regs[r].key]
           IN  /\ r \in RegsOf(q)
               /\ \A x \in RegsOf(q) : r <= x
               /\ newq = SelectSeq(q, LAMBDA w : w.reg # r)

\* a step keeps the relative order of the waiters it leaves in a queue
KeepsOrder ==
    \A k \in Keys :
        LET q == waiting_clients[k]
            newq == waiting_clients'[k]
            old == RegsOf(q)
            new == RegsOf(newq)
        IN  SelectSeq(newq, LAMBDA w : w.reg \in old) = SelectSeq(q, LAMBDA w : w.reg \in new)

\* C2: waiters of a key are served in the order of their registration: an
\* Element goes to the earliest registered waiter still in the queue, the
\* others stay, and no step (a sweep included) reorders a queue
C2_Fifo == [][ElementToOldest /\ KeepsOrder /\ QueuesInRegOrder']_vars

\* A registered before B on one key, A was sent the element, B still waits
C2_Witness ==
    /\ Len(regs) >= 2
    /\ regs[1].key = regs[2].key
    /\ Len(sent[1]) = 1 /\ sent[1][1].type = "Element"
    /\ Registered(2) /\ sent[2] = <<>>

\* C3: at most one message is ever sent for a registration
C3_AtMostOnce == \A r \in 1..MaxReg : Len(sent[r]) <= 1

\* a waiter with a timeout was sent Element, and its deadline has passed
C3_Witness ==
    \E r \in 1..Len(regs) :
        /\ regs[r].timeout_seconds > 0
        /\ Len(sent[r]) = 1 /\ sent[r][1].type = "Element"
        /\ now >= regs[r].blocked_since + regs[r].timeout_seconds

\* C7: a waiter registered with timeout 0 is never sent Timeout, and it is
\* out of the registry only when a push has sent it Element
C7_ZeroWaitsForever ==
    \A r \in 1..Len(regs) :
        regs[r].timeout_seconds = 0 =>
            IF Registered(r) THEN sent[r] = <<>>
            ELSE Len(sent[r]) = 1 /\ sent[r][1].type = "Element"

\* a sweep has timed out a waiter registered after a timeout-0 waiter, which
\* is still registered
C7_Witness ==
    \E r0, r1 \in 1..Len(regs) :
        /\ r0 < r1
        /\ regs[r0].timeout_seconds = 0 /\ Registered(r0)
        /\ Len(sent[r1]) = 1 /\ sent[r1][1].type = "Timeout"
        /\ now > regs[r0].blocked_since

\* C8: no queue of the registry holds a waiter of a closed connection
C8_CloseRemovesWaiters ==
    \A c \in Clients : closed[c] => \A w \in AllWaiters : w.client_id # c

\* ------------------------------------------------------------ one waiter, one push
TheKey == CHOOSE k \in Keys : TRUE

\* client 1 sends BLPOP k 0 on the empty list
WaiterCommand ==
    /\ issued[1] = 0
    /\ ExecuteOther(1, Cmd("BLPOP", TheKey, <<>>, 0, 0))

\* once client 1 is registered and blocked, client 2 sends one push of one element
PusherCommand ==
    /\ pc[1] = "blocked"
    /\ issued[2] = 0
    /\ \E command \in {RpushCmd(TheKey, 1), LpushCmd(TheKey, 1)} : ExecuteOther(2, command)

\* client 3 only reads the list
ReaderCommand ==
    \E command \in {Cmd("LLEN", TheKey, <<>>, 0, 0), Cmd("LRANGE", TheKey, <<>>, 0, -1)} :
        ExecuteOther(3, command)

HandoffStep(c) ==
    \/ Blpop(c) \/ BlpopRegister(c)
    \/ Rpush(c) \/ RpushHasWaiting(c) \/ RpushLpop(c) \/ RpushNotify(c)
    \/ Lpush(c) \/ Llen(c) \/ Lrange(c)

NextHandoff ==
    \/ WaiterCommand
    \/ PusherCommand
    \/ ReaderCommand
    \/ \E c \in Clients : HandoffStep(c)
    \/ \E c \in Clients : Wake(c)
    \/ Tick
    \/ Sweep

\* BLPOP k 0 of client 1, then one push of client 2, client 3 reading
SpecHandoff == Init /\ [][NextHandoff]_vars

\* C4: after client 1's BLPOP k 0 has registered, the RPUSH k v of client 2
\* returns 1 and leaves v sent to client 1 as Element{k, v} (in its mailbox,
\* or already answered as [k, v]), no waiter registered and the list empty
C4_BlpopThenRpush ==
    (pc[2] = "idle" /\ lastCmd[2] = "RPUSH") =>
        /\ reply[2] = Integer(1)
        /\ Len(sent[1]) = 1 /\ sent[1][1].type = "Element" /\ sent[1][1].element = 1
        /\ \/ pc[1] = "blocked" /\ mailbox[1] = <<Element(TheKey, 1, 1)>>
           \/ /\ pc[1] = "idle" /\ mailbox[1] = <<>>
              /\ reply[1] = Array(<<Str(TheKey), Value(1)>>)
        /\ ~Registered(1) /\ waiting_clients[TheKey] = <<>>
        /\ llen(lists[TheKey]) = 0

\* the RPUSH has returned, client 1 has answered its BLPOP, and client 3 has
\* read the length of the list
C4_Witness ==
    /\ pc[2] = "idle" /\ lastCmd[2] = "RPUSH"
    /\ pc[1] = "idle" /\ reply[1].t = "Array"
    /\ pc[3] = "idle" /\ lastCmd[3] = "LLEN"

\* C5: after client 1's BLPOP k 0 has registered, the LPUSH k v of client 2
\* leaves client 1 out of the registry and sent one element
C5_LpushHandsOff ==
    (pc[2] = "idle" /\ lastCmd[2] = "LPUSH") =>
        /\ ~Registered(1)
        /\ Len(sent[1]) = 1 /\ sent[1][1].type = "Element"

\* ------------------------------------------------------------ the sweeper runs
\* the clock advances and the periodic sweeper task keeps running
SpecLive == Init /\ [][Next]_vars /\ WF_vars(Tick) /\ WF_vars(Sweep)

TimedWaiting(r) == r <= Len(regs) /\ regs[r].timeout_seconds > 0 /\ Registered(r)

\* registration r is out of the registry and one message was sent for it
Resolved(r) == r <= Len(regs) /\ ~Registered(r) /\ Len(sent[r]) = 1

\* a Timeout is sent only for a waiter with a timeout, at or after its deadline
TimeoutNotEarly ==
    \A r \in 1..Len(regs) : \A i \in 1..Len(sent[r]) :
        sent[r][i].type = "Timeout" =>
            /\ regs[r].timeout_seconds > 0
            /\ sent[r][i].at >= regs[r].blocked_since + regs[r].timeout_seconds

\* C6: with the clock advancing and the sweeper running, every waiter with a
\* timeout t > 0 eventually leaves the registry with one message (Element or
\* Timeout) sent to it, and Timeout is never sent before blocked_since + t
C6_TimeoutEventually ==
    /\ \A r \in 1..MaxReg : TimedWaiting(r) ~> Resolved(r)
    /\ []TimeoutNotEarly

\* a waiter with a timeout was swept: it is out of the registry with Timeout
C6_Witness ==
    \E r \in 1..Len(regs) :
        /\ regs[r].timeout_seconds > 0 /\ ~Registered(r)
        /\ Len(sent[r]) = 1 /\ sent[r][1].type = "Timeout"


\* ------------------------------------------------------------ transactions
\* the commands a client may send besides MULTI, EXEC and DISCARD: one that
\* writes each part of the shared state
TxCmds ==
    UNION {{Cmd("SET", k, to_string(5), 0, 0), Cmd("INCR", k, <<>>, 0, 0), RpushCmd(k, 1),
            Cmd("BLPOP", k, <<>>, 0, 0)} : k \in Keys}
    \cup {Cmd("SUBSCRIBE", TheChannel, <<>>, 0, 0), Cmd("PING", "", <<>>, 0, 0)}

\* the steps of the primitives of TxCmds
TxStep(c) ==
    \/ Ping(c) \/ Set(c) \/ IncrGet(c) \/ IncrSet(c)
    \/ Rpush(c) \/ RpushHasWaiting(c) \/ RpushLpop(c) \/ RpushNotify(c)
    \/ Blpop(c) \/ BlpopRegister(c)
    \/ Subscribe(c)

\* a client sends a command that is neither MULTI, EXEC nor DISCARD
TxCommand(c) == \E command \in TxCmds : ExecuteOther(c, command)

\* connections that open, queue, run and drop transactions
NextTx ==
    \/ \E c \in Clients : ExecuteMulti(c)
    \/ \E c \in Clients : ExecuteExec(c)
    \/ \E c \in Clients : ExecuteDiscard(c)
    \/ \E c \in Clients : TxCommand(c)
    \/ \E c \in Clients : TxStep(c)
    \/ \E c \in Clients : Wake(c)

SpecTx == Init /\ [][NextTx]_vars

\* connection c sends a command in this step
Sends(c) == issued'[c] = issued[c] + 1

NormalMode(state) == state = [active |-> FALSE, queue |-> <<>>]

\* EXEC of a transaction takes the whole queue as its batch and leaves
\* the connection outside a transaction with an empty queue
ExecTakesQueue ==
    \A c \in Clients :
        Sends(c) /\ lastCmd'[c] = "EXEC" /\ tx_state[c].active =>
            /\ batch'[c] = tx_state[c].queue
            /\ NormalMode(tx_state'[c])
            /\ IF tx_state[c].queue = <<>>
               THEN reply'[c] = Array(<<>>) /\ pc'[c] = "idle"
               ELSE todo'[c] = tx_state[c].queue /\ pc'[c] = "start"

\* while the batch runs, what has been executed and what is still to do make
\* up the batch, in order
ExecInOrder ==
    \A c \in Clients :
        inExec[c] =>
            /\ [i \in 1..Len(executed[c]) |-> executed[c][i][1]] \o todo[c] = batch[c]
            /\ [i \in 1..Len(executed[c]) |-> executed[c][i][2]] = results[c]
            /\ NormalMode(tx_state[c])

\* when the batch is done the reply is the array of the n results, in the
\* order of the queue, and the connection is outside a transaction
ExecDone ==
    \A c \in Clients :
        pc[c] = "idle" /\ lastCmd[c] = "EXEC" /\ reply[c].t = "Array" =>
            /\ Len(reply[c].items) = Len(batch[c])
            /\ Len(executed[c]) = Len(batch[c])
            /\ \A i \in 1..Len(batch[c]) :
                    /\ executed[c][i][1] = batch[c][i]
                    /\ reply[c].items[i] = executed[c][i][2]
            /\ NormalMode(tx_state[c])

\* C9: EXEC in a transaction executes the queued commands in the order they
\* were queued, once each, answers with the array of their n results in that
\* order, and leaves the connection outside a transaction with an empty queue
C9_ExecRunsQueue == [][ExecTakesQueue]_vars /\ [](ExecInOrder /\ ExecDone)

\* an EXEC of two queued commands with different results has answered
C9_Witness ==
    \E c \in Clients :
        /\ pc[c] = "idle" /\ lastCmd[c] = "EXEC" /\ reply[c].t = "Array"
        /\ Len(batch[c]) = 2
        /\ Len(reply[c].items) = 2
        /\ reply[c].items[1] # reply[c].items[2]

\* C10: a command other than MULTI, EXEC and DISCARD sent inside a
\* transaction is appended to the queue and answered QUEUED, and nothing of
\* the keyspace, the lists, the registry, the hub or the subscribe state
\* changes
C10_QueuedNoEffect ==
    [][\A c \in Clients :
          Sends(c) /\ tx_state[c].active /\ lastCmd'[c] \notin {"MULTI", "EXEC", "DISCARD"} =>
              /\ tx_state'[c].active
              /\ Len(tx_state'[c].queue) = Len(tx_state[c].queue) + 1
              /\ SubSeq(tx_state'[c].queue, 1, Len(tx_state[c].queue)) = tx_state[c].queue
              /\ tx_state'[c].queue[Len(tx_state'[c].queue)].op = lastCmd'[c]
              /\ reply'[c] = Queued
              /\ pc'[c] = "idle"
              /\ UNCHANGED <<shared, pub_sub_state, pub_sub_client, todo, regs, sent>>]_vars

\* two different commands are queued and nothing they would write is written
C10_Witness ==
    \E c \in Clients :
        /\ tx_state[c].active
        /\ Len(tx_state[c].queue) = 2
        /\ tx_state[c].queue[1].op # tx_state[c].queue[2].op
        /\ reply[c] = Queued
        /\ pc[c] = "idle"
        /\ \A k \in Keys : k \notin DOMAIN data /\ lists[k] = <<>> /\ waiting_clients[k] = <<>>
        /\ ~pub_sub_state[c]


\* connection c sends DISCARD inside a transaction
DiscardStep(c) == Sends(c) /\ lastCmd'[c] = "DISCARD" /\ tx_state[c].active

\* an element of a dropped push is in no list, was handed to no waiter and
\* is in no queue or batch of a later transaction
NeverExecuted(v) ==
    /\ \A k \in Keys : v \notin Range(lists[k])
    /\ \A r \in 1..MaxReg : \A i \in 1..Len(sent[r]) : sent[r][i].element # v
    /\ \A c \in Clients :
          v \notin Pushed(tx_state[c].queue) \cup Pushed(todo[c]) \cup Pushed(batch[c])

\* C11: DISCARD in a transaction drops the queue, answers OK and leaves the
\* connection outside a transaction without touching the shared state, and
\* no dropped command is executed later, not even by a later EXEC
C11_DiscardDrops ==
    /\ [][\A c \in Clients :
            DiscardStep(c) =>
                /\ NormalMode(tx_state'[c])
                /\ reply'[c] = Ok
                /\ pc'[c] = "idle"
                /\ UNCHANGED <<shared, pub_sub_state, pub_sub_client, todo>>]_vars
    /\ [](\A v \in dropped : NeverExecuted(v))

\* a push was dropped and the EXEC of a later transaction of pushes has run
C11_Witness ==
    \E c \in Clients :
        /\ dropped # {}
        /\ pc[c] = "idle" /\ lastCmd[c] = "EXEC"
        /\ Pushed(batch[c]) # {}
        /\ \E k \in Keys : lists[k] # <<>>

\* C12: EXEC and DISCARD outside a transaction answer with their errors and
\* change neither the transaction state nor the shared state
C12_WithoutMulti ==
    [][\A c \in Clients :
          Sends(c) /\ lastCmd'[c] \in {"EXEC", "DISCARD"} /\ ~tx_state[c].active =>
              /\ reply'[c] = RedisError(lastCmd'[c] \o " without MULTI")
              /\ tx_state'[c] = tx_state[c]
              /\ pc'[c] = "idle"
              /\ UNCHANGED <<shared, pub_sub_state, pub_sub_client, todo>>]_vars

\* one connection was refused an EXEC and another a DISCARD
C12_Witness ==
    \E c, d \in Clients :
        /\ reply[c] = RedisError("EXEC without MULTI") /\ lastCmd[c] = "EXEC"
        /\ reply[d] = RedisError("DISCARD without MULTI") /\ lastCmd[d] = "DISCARD"
        /\ ~tx_state[c].active /\ ~tx_state[d].active


IsError(result) == result.t = "RedisError"

\* C13: MULTI inside a transaction is answered with an error
C13_NestedMultiError ==
    [][\A c \in Clients :
          Sends(c) /\ lastCmd'[c] = "MULTI" /\ tx_state[c].active => IsError(reply'[c])]_vars

\* C14: MULTI in subscribe mode is answered with an error and opens no
\* transaction
C14_MultiInSubscribeMode ==
    [][\A c \in Clients :
          Sends(c) /\ lastCmd'[c] = "MULTI" /\ pub_sub_state[c] =>
              IsError(reply'[c]) /\ ~tx_state'[c].active]_vars

SubscribeModeOps == {"SUBSCRIBE", "UNSUBSCRIBE", "PING"}

\* C15: in subscribe mode every command but SUBSCRIBE, UNSUBSCRIBE and PING
\* is answered "Can't execute '<CMD>'", and no command sent in subscribe
\* mode makes the connection run another primitive
C15_SubscribeModeGate ==
    [][\A c \in Clients :
          Sends(c) /\ pub_sub_state[c] =>
              /\ lastCmd'[c] \notin SubscribeModeOps =>
                    reply'[c] = RedisError("Can't execute '" \o lastCmd'[c] \o "'")
              /\ \A i \in 1..Len(todo'[c]) : todo'[c][i].op \in SubscribeModeOps]_vars

\* C16: an EXEC never gets to register a waiter and none of its results is
\* Blocked
C16_NoBlockingInExec ==
    \A c \in Clients :
        /\ inExec[c] => pc[c] # "register"
        /\ \A i \in 1..Len(executed[c]) : executed[c][i][2] # Blocked

\* connection c takes no step
Idles(c) == UNCHANGED <<pc[c], todo[c], tmp[c], reply[c], lastCmd[c]>>

\* C17: between the first and the last command of an EXEC no step of another
\* connection changes the keyspace
C17_ExecAtomic ==
    [][\A c \in Clients :
          inExec[c] /\ executed[c] # <<>> /\ Idles(c) => UNCHANGED <<data, lists>>]_vars


\* ------------------------------------------------------------ pub/sub
\* the pub/sub commands a client may send
PubSubCmds ==
    UNION {{Cmd("SUBSCRIBE", ch, <<>>, 0, 0), Cmd("UNSUBSCRIBE", ch, <<>>, 0, 0),
            Cmd("PUBLISH", ch, <<>>, nextVal, 0)} : ch \in Channels}
    \cup {Cmd("PING", "", <<>>, 0, 0)}

\* the steps of the pub/sub primitives
PubSubStep(c) ==
    \/ Subscribe(c) \/ Unsubscribe(c) \/ Publish(c) \/ PublishSend(c) \/ Ping(c)

\* a client sends a pub/sub command
PubSubCommand(c) == \E command \in PubSubCmds : ExecuteOther(c, command)

\* a connection that is not executing a command closes
CloseIdle(c) == pc[c] = "idle" /\ Close(c)

\* connections that subscribe, unsubscribe, publish and close
NextPubSub ==
    \/ \E c \in Clients : PubSubCommand(c)
    \/ \E c \in Clients : PubSubStep(c)
    \/ \E c \in Clients : CloseIdle(c)

SpecPubSub == Init /\ [][NextPubSub]_vars

\* connection c has completed its last command
Completed(c) == pc[c] = "idle"

\* C18: after every completed command a connection is in subscribe mode
\* exactly when its channel set is not empty
C18_ModeIffSubscribed ==
    \A c \in Clients : Completed(c) => (pub_sub_state[c] <=> pub_sub_client[c] # {})

\* one connection has entered the mode with its first SUBSCRIBE, another is
\* still in it after an UNSUBSCRIBE that left one channel
C18_Witness ==
    \E c, d \in Clients :
        /\ c # d
        /\ Completed(c) /\ lastCmd[c] = "SUBSCRIBE" /\ issued[c] = 1 /\ pub_sub_state[c]
        /\ Completed(d) /\ lastCmd[d] = "UNSUBSCRIBE" /\ pub_sub_state[d]
        /\ Cardinality(pub_sub_client[d]) = 1

\* C19: every completed SUBSCRIBE is answered [subscribe, ch, n] with n the
\* number of channels of the connection
C19_SubscribeReply ==
    \A c \in Clients :
        Completed(c) /\ lastCmd[c] = "SUBSCRIBE" =>
            \E ch \in pub_sub_client[c] :
                reply[c] = Array(<<Str("subscribe"), Str(ch),
                                   Integer(Cardinality(pub_sub_client[c]))>>)

\* the channels in which the hub has client c
HubChannels(c) == {ch \in Channels : c \in channels[ch]}

\* C20: for a live connection that has completed its command the hub's
\* channels of the client are the connection's own, and the count replied
\* by SUBSCRIBE and UNSUBSCRIBE is their number
C20_HubAgrees ==
    \A c \in Clients :
        Completed(c) /\ ~closed[c] =>
            /\ HubChannels(c) = pub_sub_client[c]
            /\ lastCmd[c] \in {"SUBSCRIBE", "UNSUBSCRIBE"} /\ reply[c].t = "Array" =>
                  reply[c].items[3] = Integer(Cardinality(HubChannels(c)))

\* two connections share a channel, one of them has left another channel
C20_Witness ==
    \E c, d \in Clients : \E ch \in Channels :
        /\ c # d
        /\ ~closed[c] /\ ~closed[d]
        /\ Completed(c) /\ Completed(d)
        /\ channels[ch] = {c, d}
        /\ lastCmd[d] = "UNSUBSCRIBE" /\ reply[d].t = "Array"
        /\ reply[d].items[3] = Integer(1)


\* C21: once a connection is closed no channel of the hub has its client id
C21_CloseLeavesHub == \A c \in Clients : closed[c] => HubChannels(c) = {}

\* connection c is in its PUBLISH and returns from it in this step
PublishReturns(c) ==
    /\ pc[c] \in {"start", "publish_send"}
    /\ todo[c] # <<>> /\ Head(todo[c]).op = "PUBLISH"
    /\ pc'[c] = "idle"

\* the mailboxes that get one more message in this step
Delivered == {d \in Clients : Len(psbox'[d]) = Len(psbox[d]) + 1}

\* C22: the integer PUBLISH returns is the number of mailboxes the message
\* was sent into
C22_PublishCount ==
    [][\A c \in Clients :
          PublishReturns(c) => reply'[c] = Integer(Cardinality(Delivered))]_vars

\* the positions of message m in a mailbox
Positions(box, m) == {i \in 1..Len(box) : box[i].message = m}

\* C23: when the PUBLISH of m1 on a channel had completed before the PUBLISH
\* of m2 on that channel was sent, a mailbox that holds both holds m1 first
C23_PublishOrder ==
    \A d \in Clients : \A i, j \in 1..Len(psbox[d]) :
        /\ psbox[d][i].channel = psbox[d][j].channel
        /\ psbox[d][i].message \in pubBefore[psbox[d][j].message].done
        => i < j

\* a mailbox holds two messages of one channel, the second sent after the
\* PUBLISH of the first had completed
C23_Witness ==
    \E d \in Clients :
        /\ Len(psbox[d]) = 2
        /\ psbox[d][1].channel = psbox[d][2].channel
        /\ psbox[d][1].message \in pubBefore[psbox[d][2].message].done

\* ------------------------------------------------------------ claims: sorted sets
\* the scores and members a ZADD may carry
Scores == {Fin(0), NegZero, Fin(1), Fin(-1), NaN, Inf(FALSE), Inf(TRUE)}
Members == {<<97>>, <<97, 98>>, <<98>>}
Indexes == (0 - MaxIndex)..MaxIndex
GeoPositions == {<<-181, 0>>, <<-90, -40>>, <<90, 40>>}

\* one connection sends a command on sorted sets or a SET
ZsetCommand(c) ==
    \/ \E key \in Keys, score \in Scores, member \in Members :
           ExecuteOther(c, Cmd("ZADD", key, member, score, 0))
    \/ \E key \in Keys, start \in Indexes, end \in Indexes :
           ExecuteOther(c, Cmd("ZRANGE", key, <<>>, start, end))
    \/ \E key \in Keys : ExecuteOther(c, Cmd("ZCARD", key, <<>>, 0, 0))
    \/ \E key \in Keys, member \in Members, position \in GeoPositions :
           ExecuteOther(c, Cmd("GEOADD", key, member, position[1], position[2]))
    \/ \E key \in Keys : ExecuteOther(c, Cmd("SET", key, to_string(5), 0, 0))

\* the steps of these primitives
ZsetStep(c) == Zadd(c) \/ Zrange(c) \/ Zcard(c) \/ Geoadd(c) \/ Set(c)

\* the connection that works on the sorted sets
ZsetClient == CHOOSE c \in Clients : \A d \in Clients : c <= d

NextZset == ZsetCommand(ZsetClient) \/ ZsetStep(ZsetClient)

SpecZset == Init /\ [][NextZset]_vars

\* C24: no key is held both as a string and as a sorted set
C24_OneVariant == \A k \in Keys : ~(k \in DOMAIN data /\ k \in DOMAIN sorted_sets)

\* the two indexes of a sorted set hold the same members with the same scores
Lockstep(set) ==
    /\ \A m \in DOMAIN set.by_member :
           \E i \in 1..Len(set.ordered) :
               set.ordered[i] = ScoredMember(set.by_member[m], m)
    /\ \A i \in 1..Len(set.ordered) :
           /\ set.ordered[i].member \in DOMAIN set.by_member
           /\ set.by_member[set.ordered[i].member] = set.ordered[i].score
    /\ Cardinality(DOMAIN set.by_member) = Len(set.ordered)

\* C25: by_member and ordered of every sorted set are in lockstep
C25_Lockstep == \A k \in DOMAIN sorted_sets : Lockstep(sorted_sets[k])

\* a member was added with +0.0, given -0.0, then moved to the score 1
C25_Witness ==
    \E k \in DOMAIN sorted_sets : \E m \in DOMAIN sorted_sets[k].by_member :
        /\ sorted_sets[k].by_member[m] = Fin(1)
        /\ <<k, m, Fin(0)>> \in zadded
        /\ <<k, m, NegZero>> \in zadded
        /\ Len(sorted_sets[k].ordered) = 1
\* the members put into key k with a finite score
Inserted(k) == {t[2] : t \in {u \in zadded : u[1] = k}}

\* byte strings in lexicographic order
LexLess(a, b) ==
    \/ Len(a) < Len(b) /\ SubSeq(b, 1, Len(a)) = a
    \/ \E i \in 1..Min(Len(a), Len(b)) :
           SubSeq(a, 1, i - 1) = SubSeq(b, 1, i - 1) /\ a[i] < b[i]

\* member a of key k comes before member b: lower score, or the same score
\* and the lower bytes
ComesBefore(k, a, b) ==
    LET x == sorted_sets[k].by_member[a].val
        y == sorted_sets[k].by_member[b].val
    IN  x < y \/ (x = y /\ LexLess(a, b))

\* connection c completes a command op with the arguments arg and end
Completes(c, op, arg, end) ==
    /\ pc[c] = "start" /\ todo[c] # <<>>
    /\ Head(todo[c]).op = op /\ Head(todo[c]).arg = arg /\ Head(todo[c]).end = end
    /\ pc'[c] = "idle"

\* C26: ZRANGE k 0 -1 answers every inserted member once, by score and then
\* by member bytes; ZCARD answers the number of members inserted with a finite
\* score
C26_FullRange ==
    [][\A c \in Clients :
        /\ Completes(c, "ZRANGE", 0, -1) =>
               LET k == Head(todo[c]).key
                   items == reply'[c].items
               IN  /\ reply'[c].t = "Array"
                   /\ Len(items) = Cardinality(Inserted(k))
                   /\ {items[i].n : i \in 1..Len(items)} = Inserted(k)
                   /\ \A i, j \in 1..Len(items) :
                          i < j => ComesBefore(k, items[i].n, items[j].n)
        /\ Completes(c, "ZCARD", 0, 0) =>
               reply'[c] = Integer(Cardinality(Inserted(Head(todo[c]).key)))]_vars

\* a ZRANGE has answered three members, two of them on the two zeros
C26_Witness ==
    \E c \in Clients : \E k \in DOMAIN sorted_sets :
        /\ pc[c] = "idle" /\ lastCmd[c] = "ZRANGE"
        /\ DOMAIN sorted_sets[k].by_member = Members
        /\ sorted_sets[k].by_member[<<98>>] = Fin(-1)
        /\ sorted_sets[k].by_member[<<97, 98>>] = Fin(0)
        /\ sorted_sets[k].by_member[<<97>>] = NegZero
        /\ reply[c] = Array(<<Value(<<98>>), Value(<<97>>), Value(<<97, 98>>)>>)
\* the rank of member m in key k: the number of members that come before it
Rank(k, m) == Cardinality({x \in Inserted(k) : ComesBefore(k, x, m)})

\* the members of key k with a rank from lo to hi, by rank
ByRank(k, lo, hi) ==
    [i \in 1..(hi - lo + 1) |-> CHOOSE m \in Inserted(k) : Rank(k, m) = lo + i - 1]

\* an index counted from the end when it is negative
FromEnd(i, len) == IF i < 0 THEN len + i ELSE i

\* what ZRANGE k start end is to answer
RangeOf(k, start, end) ==
    LET len == Cardinality(Inserted(k))
        s == Max(FromEnd(start, len), 0)
        e == Min(FromEnd(end, len), len - 1)
    IN  IF s >= len \/ s > FromEnd(end, len) THEN <<>> ELSE ByRank(k, s, e)

\* C27: ZRANGE k s e answers the members whose rank lies between the two
\* indexes, a negative index counted from the end and a start below 0 taken
\* as 0, and answers the empty array when the start is past the end
C27_Range ==
    [][\A c \in Clients : \A start, end \in Indexes :
        Completes(c, "ZRANGE", start, end) =>
            reply'[c] = Array(SeqMap(Value, RangeOf(Head(todo[c]).key, start, end)))]_vars

\* a ZRANGE has answered the last two of three members
C27_Witness ==
    \E c \in Clients : \E k \in DOMAIN sorted_sets :
        /\ pc[c] = "idle" /\ lastCmd[c] = "ZRANGE"
        /\ DOMAIN sorted_sets[k].by_member = Members
        /\ Rank(k, <<98>>) = 0 /\ Rank(k, <<97>>) = 1 /\ Rank(k, <<97, 98>>) = 2
        /\ reply[c] = Array(<<Value(<<97>>), Value(<<97, 98>>)>>)
\* connection c completes a ZADD whose score is not finite
ZaddNotFinite(c) ==
    /\ pc[c] = "start" /\ todo[c] # <<>>
    /\ Head(todo[c]).op = "ZADD" /\ ~is_finite(Head(todo[c]).arg)
    /\ pc'[c] = "idle"

\* C28: a ZADD with a score that is not finite answers 0 and leaves the sorted
\* sets as they were, the set of keys included
C28_NotFiniteNoOp ==
    [][\A c \in Clients :
        ZaddNotFinite(c) => reply'[c] = Integer(0) /\ sorted_sets' = sorted_sets]_vars
\* ------------------------------------------------------------ claims: INCR
\* the strings a SET may store: numbers at the two ends of i64 and past
\* them, signs, leading zeros, and strings that are no numbers
IncrValues ==
    {to_string(MaxInt), to_string(MaxInt + 1), to_string(MaxInt - 1),
     to_string(MinInt), to_string(MinInt - 1),
     <<BytePlus>> \o to_string(5), <<Byte0>> \o to_string(7),
     <<>>, <<ByteMinus>>, <<ByteA>>, to_string(1) \o <<ByteA>>,
     <<ByteSpace>> \o to_string(1)}

\* one connection sends a SET, an INCR or a GET
IncrCommand(c) ==
    \/ \E key \in Keys, value \in IncrValues : ExecuteOther(c, Cmd("SET", key, value, 0, 0))
    \/ \E key \in Keys : ExecuteOther(c, Cmd("INCR", key, <<>>, 0, 0))
    \/ \E key \in Keys : ExecuteOther(c, Cmd("GET", key, <<>>, 0, 0))

\* the steps of these primitives
IncrStep(c) == Set(c) \/ Get(c) \/ IncrGet(c) \/ IncrSet(c)

\* the connection that sends them
IncrClient == CHOOSE c \in Clients : \A d \in Clients : c <= d

NextIncr == IncrCommand(IncrClient) \/ IncrStep(IncrClient)

SpecIncr == Init /\ [][NextIncr]_vars

\* the decimal string of a natural number
RECURSIVE Decimal(_)
Decimal(n) == IF n < 10 THEN <<48 + n>> ELSE Decimal(n \div 10) \o <<48 + (n % 10)>>

\* the integers a string denotes: an optional sign and then digits only
Denotes(str) ==
    {v \in MinInt..MaxInt :
        \/ str = Decimal(v) /\ v >= 0
        \/ \E zeros \in 0..2 : \E sign \in {<<>>, <<43>>, <<45>>} :
               /\ str = sign \o [i \in 1..zeros |-> 48] \o Decimal(IF v < 0 THEN 0 - v ELSE v)
               /\ (v < 0 => sign = <<45>>)
               /\ (v > 0 => sign # <<45>>)}

\* connection c takes a step of an INCR from the place label
IncrAt(c, label) ==
    /\ pc[c] = label /\ todo[c] # <<>> /\ Head(todo[c]).op = "INCR"
    /\ pc'[c] # pc[c]

\* C29: the n-th INCR of a connection that has sent nothing but INCRs, on a key
\* that was absent, answers n and stores the decimal string of n; an INCR on a
\* value that denotes no integer of i64 answers the error and leaves the value
C29_Incr ==
    [][\A c \in Clients :
        /\ (IncrAt(c, "start") /\ onlyIncr) => pc'[c] = "incr_set"
        /\ (IncrAt(c, "incr_set") /\ onlyIncr) =>
               /\ pc'[c] = "idle"
               /\ reply'[c] = Integer(issued[c])
               /\ data'[Head(todo[c]).key].value = Decimal(issued[c])
        /\ (IncrAt(c, "start") /\ Head(todo[c]).key \in DOMAIN data
              /\ Denotes(data[Head(todo[c]).key].value) = {}) =>
               /\ pc'[c] = "idle"
               /\ reply'[c] = RedisError("value is not an integer or out of range")
               /\ data' = data]_vars

\* the fourth INCR in a row has answered 4
C29_Witness ==
    \E c \in Clients : \E k \in DOMAIN data :
        /\ onlyIncr /\ issued[c] = MaxSolo /\ pc[c] = "idle"
        /\ reply[c] = Integer(MaxSolo)
        /\ data[k].value = Decimal(MaxSolo)

\* C30: an INCR on a key that holds the greatest i64 answers the error and
\* leaves the value; no wrapped value is stored or answered
C30_IncrOverflow ==
    [][\A c \in Clients :
        (/\ IncrAt(c, "start")
         /\ Head(todo[c]).key \in DOMAIN data
         /\ Denotes(data[Head(todo[c]).key].value) = {MaxInt}) =>
            /\ reply'[c] = RedisError("value is not an integer or out of range")
            /\ pc'[c] = "idle"
            /\ data' = data]_vars
\* ------------------------------------------------------------ claims: expiry
\* the values a SET may store
SetValues == {<<>>, <<ByteA>>}

\* one connection sends a SET, a SET with PX or a GET
ExpiryCommand(c) ==
    \/ \E key \in Keys, value \in SetValues : ExecuteOther(c, Cmd("SET", key, value, 0, 0))
    \/ \E key \in Keys, value \in SetValues, expiry_ms \in 0..MaxPx :
           ExecuteOther(c, Cmd("SET", key, value, expiry_ms, 1))
    \/ \E key \in Keys : ExecuteOther(c, Cmd("GET", key, <<>>, 0, 0))

\* the steps of these primitives
ExpiryStep(c) == Set(c) \/ SetWithExpiry(c) \/ Get(c)

\* the connection that sends them
ExpiryClient == CHOOSE c \in Clients : \A d \in Clients : c <= d

NextExpiry == ExpiryCommand(ExpiryClient) \/ ExpiryStep(ExpiryClient) \/ Tick

SpecExpiry == Init /\ [][NextExpiry]_vars

\* the last write of key k had a PX and more than that time has passed
PastDeadline(k) ==
    lastSet[k].set /\ lastSet[k].px # None /\ now - lastSet[k].at > lastSet[k].px

\* connection c completes a GET in this step
GetReturns(c) ==
    /\ pc[c] = "start" /\ todo[c] # <<>> /\ Head(todo[c]).op = "GET"
    /\ pc'[c] = "idle"

\* C31: a GET answers the value of the last SET of the key, or nil when that
\* SET had a PX and more than its time has passed, and then the key is
\* removed; a SET without PX has no deadline
C31_SetGet ==
    [][\A c \in Clients :
        GetReturns(c) =>
            LET k == Head(todo[c]).key
            IN  IF ~lastSet[k].set THEN reply'[c].t = "Nil"
                ELSE IF PastDeadline(k)
                THEN reply'[c].t = "Nil" /\ k \notin DOMAIN data'
                ELSE reply'[c].t = "Value" /\ reply'[c].n = lastSet[k].value]_vars

\* a GET at the deadline of a SET with PX has answered the value
C31_WitnessAlive ==
    \E c \in Clients : \E k \in Keys :
        /\ pc[c] = "idle" /\ lastCmd[c] = "GET"
        /\ lastSet[k].set /\ lastSet[k].px = MaxPx /\ now - lastSet[k].at = MaxPx
        /\ reply[c].t = "Value"

\* a GET after the deadline of a SET with PX has answered nil and removed the key
C31_Witness ==
    \E c \in Clients : \E k \in Keys :
        /\ pc[c] = "idle" /\ lastCmd[c] = "GET" /\ issued[c] = 2
        /\ PastDeadline(k)
        /\ reply[c].t = "Nil"
        /\ k \notin DOMAIN data
\* ------------------------------------------------------------ claims: the wire
NextWire == SendPipeline \/ ReadBuf

SpecWire == Init /\ [][NextWire]_vars

\* the response a command is to get
ResponseTo(command) ==
    IF command.op = "PING" THEN RedisResponse("Pong", <<>>)
    ELSE RedisResponse("BulkString", command.elems)

\* C32: once the bytes of a pipeline of N commands are read, in whatever
\* pieces, the N responses have been written in the order of the commands,
\* and nothing else
C32_PipelineReplies ==
    (task # "new" /\ socket = <<>>) =>
        /\ task = "open"
        /\ Len(replies) = Len(pipeline)
        /\ \A i \in 1..Len(pipeline) : replies[i].t = ResponseTo(pipeline[i]).t
        /\ \A i \in 1..Len(pipeline) :
               replies[i].t = "BulkString" => replies[i].text = pipeline[i].elems

\* the decoder alone
NextDecode == Receive \/ Decode

SpecDecode == Init /\ [][NextDecode]_vars

\* the frames of DecodeInputs that are well-formed values
ValidFrames == {f \in Frames : parse_value(f, FALSE).kind = "ok" /\ parse_value(f, TRUE).kind = "ok"}

IsPrefix(s, t) == Len(s) <= Len(t) /\ SubSeq(t, 1, Len(s)) = s

\* buf is the beginning of a frame and not the whole of it
ProperPrefix(buf) == \E f \in ValidFrames : IsPrefix(buf, f) /\ buf # f

\* C33: the decoder can be resumed: on a proper prefix of a frame it answers
\* something other than the error of a malformed frame and takes no byte; on
\* a buffer that begins with a complete frame it answers the value of that
\* frame and leaves exactly the bytes after it
C33_Resumable ==
    \A i \in 1..Len(decoded) :
        LET d == decoded[i]
        IN  /\ ProperPrefix(d.input) => d.kind # "err" /\ d.rest = d.input
            /\ \A f \in ValidFrames :
                   IsPrefix(f, d.input) =>
                       /\ d.kind = "ok"
                       /\ d.value = parse_value(f, FALSE).value
                       /\ d.rest = SubSeq(d.input, Len(f) + 1, Len(d.input))

\* ------------------------------------------------------------ claims: panics
\* the task of connection c ends in the middle of a command
PanicStep(c) == pc[c] \notin {"idle", "blocked", "closed"} /\ pc'[c] = "closed"

\* C34: no command makes the task of a connection panic: no step of a
\* command ends the task, and every result handed back by execute, that of
\* an EXEC included, is one from_result encodes
C34_NoPanic ==
    [][\A c \in Clients :
          /\ ~PanicStep(c)
          /\ (pc'[c] = "idle" /\ reply'[c].t # "NoReply") => from_result(reply'[c]).ok]_vars

\* ------------------------------------------------------------ claims: the snapshot
NextBoot == LoadRdb \/ ServerGet \/ WallTick

SpecBoot == Init /\ [][NextBoot]_vars

\* the absolute expiry the snapshot gives key, None when it gives none
SnapshotExpiry(key) == expiry_of(parse_database(rdb_file, RdbFile(<<>>, <<>>)), key)

\* C35: a key the snapshot gives the absolute expiry T is answered with its
\* value by a GET at or before T and with nil by a GET after T
C35_SnapshotExpiry ==
    (fetched.t # "None" /\ SnapshotExpiry(fetched.key) # None) =>
        IF fetched.at > SnapshotExpiry(fetched.key)
        THEN fetched.t = "Nil"
        ELSE fetched.t = "BulkString"

\* ------------------------------------------------------------ claims: wake-ups
\* the only commands sent are a BLPOP of a and an RPUSH of b, and both have
\* returned from execute
BlpopAndRpush(a, b) ==
    /\ a # b /\ Total(issued) = 2
    /\ issued[a] = 1 /\ lastCmd[a] = "BLPOP" /\ pc[a] \in {"blocked", "idle"}
    /\ issued[b] = 1 /\ lastCmd[b] = "RPUSH" /\ pc[b] = "idle"

\* connection a waits on key k with no timeout
WaitsForever(a, k) ==
    \E i \in 1..Len(waiting_clients[k]) :
        /\ waiting_clients[k][i].client_id = a
        /\ waiting_clients[k][i].timeout_duration = None

\* C36: when a BLPOP k 0 on the empty list and an RPUSH k v of another
\* connection have both finished, in whatever order their steps were taken,
\* the BLPOP connection is not left registered while the list holds v
C36_NoLostWakeup ==
    \A a, b \in Clients : \A k \in Keys :
        BlpopAndRpush(a, b) => ~(WaitsForever(a, k) /\ lists[k] # <<>>)

\* ------------------------------------------------------------ claims: elements
\* the elements in the lists
InLists == UNION {Range(lists[k]) : k \in Keys}

\* the elements an RPUSH has popped and not yet handed to a waiter
InHand == {tmp[c].popped : c \in {d \in Clients : pc[d] = "notify"}}

\* the elements in the mailboxes of the connections that are open
InMailboxes ==
    UNION {{mailbox[c][i].element :
                i \in {j \in 1..Len(mailbox[c]) : mailbox[c][j].type = "Element"}} :
           c \in {d \in Clients : ~closed[d]}}

\* the result holds the element v
Holds(result, v) ==
    \/ result.t = "Value" /\ result.n = v
    \/ /\ result.t = "Array"
       /\ \E i \in 1..Len(result.items) : result.items[i].t = "Value" /\ result.items[i].n = v

\* connection c is answered in this step, with a reply that holds v
AnsweredWith(c, v) == pc[c] # "idle" /\ pc'[c] = "idle" /\ Holds(reply'[c], v)

\* C37: no step loses an element: an element that is in a list, in the hand
\* of an RPUSH or in the mailbox of an open connection is, after any step, in
\* one of these places still or in the reply the step gives to a client, and
\* it is never both in a list and in a mailbox
C37_NoElementLost ==
    [][/\ \A v \in InLists \cup InHand \cup InMailboxes :
             \/ v \in InLists' \cup InHand' \cup InMailboxes'
             \/ \E c \in Clients : AnsweredWith(c, v)
       /\ InLists' \cap InMailboxes' = {}]_vars

\* ------------------------------------------------------------ claims: one command at a time
\* no connection is in the middle of a command
Quiet == \A c \in Clients : pc[c] \in {"idle", "blocked", "closed"}

\* the commands of the sequential runs: pushes of one element and of more,
\* pops, and blocking pops that wait for ever
SeqCmds ==
    UNION {{RpushCmd(k, n) : n \in 1..MaxVal}
           \cup {Cmd("LPOP", k, <<>>, None, 0), Cmd("BLPOP", k, <<>>, 0, 0)} : k \in Keys}

\* a client sends a command once the command before it has returned
SeqCommand(c) == Quiet /\ \E command \in SeqCmds : ExecuteOther(c, command)

SeqStep(c) ==
    \/ Rpush(c) \/ RpushHasWaiting(c) \/ RpushLpop(c) \/ RpushNotify(c)
    \/ Lpop(c)
    \/ Blpop(c) \/ BlpopRegister(c)

NextSeq ==
    \/ \E c \in Clients : SeqCommand(c)
    \/ \E c \in Clients : SeqStep(c)
    \/ \E c \in Clients : Wake(c)

SpecSeq == Init /\ [][NextSeq]_vars

\* C38: when commands run one at a time, after each of them no key has a
\* registered waiter and a list that is not empty
C38_WaitersOrElements ==
    Quiet => \A k \in Keys : ~(waiting_clients[k] # <<>> /\ lists[k] # <<>>)

\* ------------------------------------------------------------ claims: INCR of several connections
\* a connection sends INCR
IncrManyCommand(c) == \E key \in Keys : ExecuteOther(c, Cmd("INCR", key, <<>>, 0, 0))

IncrManyStep(c) == IncrGet(c) \/ IncrSet(c)

NextIncrMany ==
    \/ \E c \in Clients : IncrManyCommand(c)
    \/ \E c \in Clients : IncrManyStep(c)

SpecIncrMany == Init /\ [][NextIncrMany]_vars

\* the connections that have sent their INCR
Incrementers == {c \in Clients : issued[c] > 0}

\* C39: when n connections have each sent one INCR of a key that was absent
\* and all have been answered, the answers are the numbers 1..n, each once,
\* and the key holds n
C39_IncrAtomic ==
    (/\ Incrementers # {}
     /\ \A c \in Incrementers : issued[c] = 1 /\ pc[c] = "idle") =>
        /\ \A c \in Incrementers : reply[c].t = "Integer"
        /\ {reply[c].n : c \in Incrementers} = 1..Cardinality(Incrementers)
        /\ \A k \in Keys : k \in DOMAIN data /\ Denotes(data[k].value) = {Cardinality(Incrementers)}

\* ------------------------------------------------------------ claims: publishers side by side
NextHub ==
    \/ \E s \in Subscribers : HubSubscribe(s)
    \/ \E p \in Publishers : HubPublish(p)
    \/ \E p \in Publishers : HubSend(p)

SpecHub == Init /\ [][NextHub]_vars

\* the places of the message of publisher p in the inbox of s
PlacesOf(s, p) == {i \in 1..Len(inbox[s]) : inbox[s][i].message = p}

\* subscriber s has the message of p before that of q
Before(s, p, q) == \E i \in PlacesOf(s, p) : \E j \in PlacesOf(s, q) : i < j

\* C40: two subscribers that both have the messages of two publishers have
\* them in the same order
C40_SameOrder ==
    \A s, t \in Subscribers : \A p, q \in Publishers :
        (Before(s, p, q) /\ (Before(t, p, q) \/ Before(t, q, p))) => Before(t, p, q)
====
